---- MODULE Spec2Model ----
(***************************************************************************)
(* A model of the aggregator service of jgerton/ember-feed:                *)
(*   - the ArticleDeduplicator object (app/analyzers/deduplicator.py),     *)
(*     with the MinHash signatures and the banded LSH index it builds on,  *)
(*   - the feed-refresh scheduler, the pipeline task and the keyword       *)
(*     history table (app/scheduler.py, app/api/routes.py,                 *)
(*     app/database.py, app/analyzers/historical_snapshot.py).             *)
(*   - the analyzers called as functions: VelocityCalculator, HotScorer    *)
(*     and KeywordExtractor (app/analyzers/).                              *)
(* The parts have their own specifications, SpecDedup, SpecPipeline and    *)
(* SpecAnalyzers, over disjoint groups of variables.                       *)
(***************************************************************************)
EXTENDS Integers, Sequences, FiniteSets, TLC

VARIABLES
    \* ---- the ArticleDeduplicator instance and its last call
    threshold,          \* self.threshold, in tenths (5 is 0.5)
    lsh,                \* self.lsh: key (the idx of "article_{idx}") -> signature
    articles,           \* the argument of the last call
    unique_articles,    \* the list deduplicate_articles returned
    article_signatures, \* the call's local dict: idx -> position of the article
    duplicates,         \* the dict find_duplicates returned: idx -> set of idx
    raised,             \* the exception the last call raised, or "none"
    op,                 \* the last operation on the instance
    fresh,              \* the index was empty when the last call began
    prev_op,            \* the operation before the last one
    prev_unique,        \* unique_articles as the operation before the last left it
    calls,              \* calls made so far
    \* ---- the scheduler, the pipeline tasks and the store
    sched_running,      \* scheduler.running of the global AsyncIOScheduler
    job,                \* the "feed_refresh" job of that scheduler
    scheduler_state,    \* the scheduler_state dict of app/scheduler.py
    last_fire,          \* what the last firing of the interval trigger did
    runs,               \* the pipeline tasks: run id -> task
    fetch_jobs,         \* the fetch_jobs dict of app/api/routes.py
    last_completed,     \* the job with the latest completed_at, or 0
    keyword_history,    \* the rows of the keyword_history table
    trending_up_topics, \* the rows of the trending_up_topics table
    store_calls,        \* ids and fetched_at stamps drawn so far
    snapshot_calls,     \* create_snapshot calls so far
    today,              \* the calendar day (UTC) of the clock
    \* ---- a call of an analyzer function
    request,            \* the function called and its arguments
    response            \* what the call returned, or the exception it raised

pipeVars == <<sched_running, job, scheduler_state, last_fire, runs, fetch_jobs,
              last_completed, keyword_history, trending_up_topics, store_calls,
              snapshot_calls, today>>

dedupVars == <<threshold, lsh, articles, unique_articles, article_signatures,
               duplicates, raised, op, fresh, prev_op, prev_unique, calls>>

analyzerVars == <<request, response>>

vars == <<dedupVars, pipeVars, analyzerVars>>

(***************************************************************************)
(* Bounds of the model.                                                    *)
(***************************************************************************)
\* Longest batch handed to the deduplicator.
MaxBatch == 3
\* Permutations of a signature (num_perm; 128 in the service, scaled down).
NumPerm == 6
\* Calls made on one ArticleDeduplicator instance.
MaxCalls == 2
\* Pipeline tasks started in one behaviour.
MaxRuns == 2
\* Last calendar day the clock reaches (it starts at day 1).
MaxDay == 2
\* Snapshot calls made in one behaviour.
MaxSnapshots == 1
\* Entries of the current_keywords dict handed to the velocity calculator.
MaxKeywords == 2
\* History points of one keyword handed to _calculate_previous_volume.
MaxHistory == 2
\* Largest top_n handed to get_top_trending_up.
MaxTopN == 2
\* Longest batch handed to the hot scorer and to the keyword extractor.
MaxArticles == 2

(***************************************************************************)
(* Text: a string is modelled as the sequence of its whitespace-separated  *)
(* tokens.  A token is a word, a word with capitals, an HTML tag, a URL or *)
(* a run of special characters.                                            *)
(***************************************************************************)
WordCode(w) ==
    CASE w = "ai" -> 1 [] w = "gpt" -> 2 [] w = "rust" -> 3 [] w = "go" -> 4
      [] OTHER -> 0

\* str.lower() of a token
Lower(tok) == CASE tok = "GPT" -> "gpt" [] tok = "AI" -> "ai" [] OTHER -> tok

IsHtmlTag(tok) == tok \in {"<b>", "</b>"}
IsUrlToken(tok) == tok \in {"http://t.co/x"}
IsSpecial(tok) == tok \in {"!", "--"}

\* _clean_text: tags and URLs are deleted, special characters become spaces,
\* runs of spaces collapse, the ends are stripped.
CleanTextKeeps(tok) == ~IsHtmlTag(tok) /\ ~IsUrlToken(tok) /\ ~IsSpecial(tok)
CleanText(text) == SelectSeq(text, CleanTextKeeps)

\* _create_shingles: the set of k consecutive lower-cased words
CreateShingles(text, k) ==
    LET words == [i \in 1..Len(text) |-> Lower(text[i])]
    IN  { SubSeq(words, i, i + k - 1) : i \in 1..(Len(words) - k + 1) }

ShingleSize == 3

(***************************************************************************)
(* MinHash (datasketch.MinHash, scaled down): a shingle is hashed to an    *)
(* integer, permutation i maps hash value hv to                            *)
(* ((a_i * hv + b_i) mod MersennePrime) & MaxHash, and slot i of the       *)
(* signature is the least permuted value over the shingles.  A signature   *)
(* starts with every slot at MaxHash.                                      *)
(***************************************************************************)
MersennePrime == 2^13 - 1
MaxHash == 2^8 - 1
PermA == <<5573, 1229, 7013, 3391, 6841, 2477, 4409, 911>>
PermB == <<811, 6203, 157, 4999, 3571, 7717, 2089, 5051>>

\* the stand-in of sha1_hash32: injective on the shingles of the model
RECURSIVE Sha1Hash32(_)
Sha1Hash32(shingle) ==
    IF shingle = <<>> THEN 0
    ELSE Sha1Hash32(SubSeq(shingle, 1, Len(shingle) - 1)) * 5
         + WordCode(shingle[Len(shingle)])

Permute(i, hv) == ((PermA[i] * hv + PermB[i]) % MersennePrime) % (MaxHash + 1)

SetMin(S) == CHOOSE x \in S : \A y \in S : x <= y

\* MinHash(num_perm) followed by update(shingle) for every shingle
MinHashOf(shingles) ==
    [i \in 1..NumPerm |->
        IF shingles = {} THEN MaxHash
        ELSE SetMin({MaxHash} \cup { Permute(i, Sha1Hash32(s)) : s \in shingles })]

\* _create_minhash
ArticleShingles(article) ==
    CreateShingles(CleanText(article.title \o article.text), ShingleSize)
CreateMinhash(article) == MinHashOf(ArticleShingles(article))

(***************************************************************************)
(* The inputs: articles over three urls (one of them empty) and a few      *)
(* contents: no content, content too short for a shingle, a headline, the  *)
(* headline with a body, the same with markup and capitals, and another    *)
(* story.                                                                  *)
(***************************************************************************)
Urls == {"", "u1", "u2"}

Contents ==
    { [title |-> << >>, text |-> << >>],
      [title |-> <<"ai", "gpt">>, text |-> << >>],
      [title |-> <<"gpt", "ai", "rust">>, text |-> << >>],
      [title |-> <<"gpt", "ai", "rust">>, text |-> <<"go">>],
      [title |-> <<"GPT", "<b>", "AI", "</b>", "rust">>,
       text |-> <<"http://t.co/x", "go", "!">>],
      [title |-> <<"rust", "go", "gpt">>, text |-> <<"ai", "rust">>] }

Articles ==
    { [url |-> u, title |-> c.title, text |-> c.text] : u \in Urls, c \in Contents }

Batches == UNION { [1..n -> Articles] : n \in 0..MaxBatch }

\* the signature of every article of the model, computed once
Signatures == [a \in Articles |-> CreateMinhash(a)]

(***************************************************************************)
(* MinHashLSH(threshold, num_perm) (datasketch, scaled down): the          *)
(* signature is cut into b bands of r slots; b and r are the pair that     *)
(* minimises the weighted false-positive and false-negative areas for the  *)
(* threshold (the library's _optimal_param, tabulated here for the         *)
(* num_perm values of the model, thresholds 0.1 .. 1.0).                   *)
(***************************************************************************)
OptimalParamTable(n) ==
    CASE n = 4 -> << <<4,1>>, <<4,1>>, <<4,1>>, <<2,1>>, <<2,2>>,
                     <<2,2>>, <<1,4>>, <<1,4>>, <<1,4>>, <<1,4>> >>
      [] n = 5 -> << <<5,1>>, <<5,1>>, <<4,1>>, <<2,1>>, <<2,2>>,
                     <<2,2>>, <<1,4>>, <<1,5>>, <<1,5>>, <<1,5>> >>
      [] n = 6 -> << <<6,1>>, <<6,1>>, <<4,1>>, <<3,2>>, <<3,2>>,
                     <<2,3>>, <<2,3>>, <<1,6>>, <<1,6>>, <<1,6>> >>
      [] n = 7 -> << <<7,1>>, <<7,1>>, <<4,1>>, <<3,2>>, <<3,2>>,
                     <<2,3>>, <<2,3>>, <<1,7>>, <<1,7>>, <<1,7>> >>
      [] n = 8 -> << <<8,1>>, <<7,1>>, <<4,1>>, <<4,2>>, <<3,2>>,
                     <<2,3>>, <<2,4>>, <<1,7>>, <<1,8>>, <<1,8>> >>
      [] n = 9 -> << <<9,1>>, <<7,1>>, <<4,1>>, <<4,2>>, <<3,3>>,
                     <<3,3>>, <<2,4>>, <<1,7>>, <<1,9>>, <<1,9>> >>

OptimalParam(t, n) == OptimalParamTable(n)[t]

\* the thresholds an instance is constructed with (0.3, the default 0.5, 0.9)
Thresholds == {3, 5, 9}

\* two signatures fall into one bucket of some band
SameBucket(sig1, sig2, t) ==
    LET b == OptimalParam(t, NumPerm)[1]
        r == OptimalParam(t, NumPerm)[2]
    IN  \E band \in 0..(b - 1) :
            \A j \in 1..r : sig1[band * r + j] = sig2[band * r + j]

\* MinHashLSH.query: the keys of the index sharing a bucket with the signature
LSHQuery(index, signature, t) ==
    { key \in DOMAIN index : SameBucket(index[key], signature, t) }

EmptyIndex == << >>

\* an insert that loses the key: with it the index never answers a query
LSHInsertLost(index, key, signature) == index

\* MinHashLSH.insert; the caller has checked that the key is new
LSHInsert(index, key, signature) ==
    [k \in (DOMAIN index) \cup {key} |->
        IF k = key THEN signature ELSE index[k]]

(***************************************************************************)
(* deduplicate_articles: one iteration of the loop, then the loop.  The    *)
(* loop state st holds self.lsh and the locals unique_articles, seen_urls  *)
(* and article_signatures; st.raised is the exception that ended the call  *)
(* (MinHashLSH.insert raises ValueError for a key the index already has).  *)
(***************************************************************************)
LoopStart(index) ==
    [lsh |-> index, unique_articles |-> << >>, seen_urls |-> {},
     article_signatures |-> {}, raised |-> "none"]

\* a loop body that puts a kept article in front of unique_articles
DedupStepPrepend(st, article, idx, t) ==
    IF st.raised # "none" THEN st
    ELSE IF article.url # "" /\ article.url \in st.seen_urls THEN st
    ELSE LET signature == Signatures[article]
             similar_articles == LSHQuery(st.lsh, signature, t)
         IN  IF similar_articles # {} THEN st
             ELSE [st EXCEPT
                     !.lsh = LSHInsert(st.lsh, idx, signature),
                     !.article_signatures = @ \cup {idx},
                     !.seen_urls = IF article.url # "" THEN @ \cup {article.url} ELSE @,
                     !.unique_articles = <<article>> \o @]

\* a loop body that compares an article with the article before it only
DedupStepPreviousOnly(st, article, idx, t) ==
    IF st.raised # "none" THEN st
    ELSE IF article.url # "" /\ article.url \in st.seen_urls THEN st
    ELSE LET signature == Signatures[article]
             similar_articles == LSHQuery(st.lsh, signature, t) \cap {idx - 1}
         IN  IF similar_articles # {} THEN st
             ELSE [st EXCEPT
                     !.lsh = LSHInsert(st.lsh, idx, signature),
                     !.article_signatures = @ \cup {idx},
                     !.seen_urls = IF article.url # "" THEN @ \cup {article.url} ELSE @,
                     !.unique_articles = Append(@, article)]

DedupStep(st, article, idx, t) ==
    IF st.raised # "none" THEN st
    ELSE IF article.url # "" /\ article.url \in st.seen_urls THEN st
    ELSE LET signature == Signatures[article]
             similar_articles == LSHQuery(st.lsh, signature, t)
         IN  IF similar_articles # {} THEN st
             ELSE IF idx \in DOMAIN st.lsh
                  THEN [st EXCEPT !.raised = "ValueError"]
             ELSE [st EXCEPT
                     !.lsh = LSHInsert(st.lsh, idx, signature),
                     !.article_signatures = @ \cup {idx},
                     !.seen_urls = IF article.url # "" THEN @ \cup {article.url} ELSE @,
                     !.unique_articles = Append(@, article)]

RECURSIVE DedupLoop(_, _, _, _)
DedupLoop(st, batch, idx, t) ==
    IF idx >= Len(batch) THEN st
    ELSE DedupLoop(DedupStep(st, batch[idx + 1], idx, t), batch, idx + 1, t)

\* a call of deduplicate_articles on an instance whose index is `index`
DeduplicateRun(index, batch, t) == DedupLoop(LoopStart(index), batch, 0, t)

\* the module-level deduplicate(articles, threshold): a new instance per call
Deduplicate(batch, t) == DeduplicateRun(EmptyIndex, batch, t).unique_articles

(***************************************************************************)
(* find_duplicates: every article is inserted, a duplicate too; an article *)
(* with candidates gets an entry under its own id, holding the candidates. *)
(* article_signatures[similar_id] raises KeyError for a key of the index   *)
(* that this call has not inserted.                                        *)
(***************************************************************************)
FindStart(index) ==
    [lsh |-> index, duplicates |-> << >>, article_signatures |-> {},
     raised |-> "none"]

FindStep(st, article, idx, t) ==
    IF st.raised # "none" THEN st
    ELSE LET signature == Signatures[article]
             similar == LSHQuery(st.lsh, signature, t)
         IN  IF similar # {} /\ ~(similar \subseteq st.article_signatures)
             THEN [st EXCEPT !.raised = "KeyError"]
             ELSE LET found == IF similar # {}
                               THEN [k \in (DOMAIN st.duplicates) \cup {idx} |->
                                       IF k = idx THEN similar ELSE st.duplicates[k]]
                               ELSE st.duplicates
                  IN  IF idx \in DOMAIN st.lsh
                      THEN [st EXCEPT !.duplicates = found, !.raised = "ValueError"]
                      ELSE [st EXCEPT
                              !.duplicates = found,
                              !.lsh = LSHInsert(st.lsh, idx, signature),
                              !.article_signatures = @ \cup {idx}]

RECURSIVE FindLoop(_, _, _, _)
FindLoop(st, batch, idx, t) ==
    IF idx >= Len(batch) THEN st
    ELSE FindLoop(FindStep(st, batch[idx + 1], idx, t), batch, idx + 1, t)

FindRun(index, batch, t) == FindLoop(FindStart(index), batch, 0, t)

(***************************************************************************)
(* The scheduler, the pipeline and the store: constants and initial state. *)
(***************************************************************************)
\* max_instances of the feed_refresh job (start_scheduler)
MaxInstances == 1

\* the intervals the scheduler is started with (minutes; 30 is the default)
Intervals == {30, 60}

NoJob == [exists |-> FALSE, paused |-> FALSE, interval |-> 0]

\* the names fetch_and_process_content looks for in its sources argument
AllSources == {"hackernews", "reddit", "rss", "newsapi"}

\* the source field of the articles a fetcher returns
SourceName ==
    [hackernews |-> "HackerNews", reddit |-> "Reddit", rss |-> "RSS", newsapi |-> "NewsAPI"]

\* the sources argument of POST /api/fetch as a set; {} is None (or [])
SourceArgs == {{}, {"hackernews", "reddit"}}

\* what a run's keyword extraction yields: keyword -> mentions and sources
Keywords == {"ai", "rust", "go"}
KeywordData ==
    [ai |-> [mentions |-> 2, sources |-> {"HackerNews"}],
     rust |-> [mentions |-> 5, sources |-> {"HackerNews", "Reddit"}],
     go |-> [mentions |-> 10, sources |-> {"HackerNews"}]]
KeywordResults ==
    { [k \in ks |-> KeywordData[k]] : ks \in {{"ai"}, {"ai", "rust"}} }

\* what steps 1 to 4 of a run yield: the lengths of all_articles and of
\* unique_articles, and the keywords in the order of the extractor
NoArticles == [original |-> 0, unique |-> 0, keywords |-> << >>]
Analysed(original, unique, ks) ==
    [original |-> original, unique |-> unique,
     keywords |-> [i \in 1..Len(ks) |->
                     [keyword |-> ks[i], mentions |-> KeywordData[ks[i]].mentions,
                      sources |-> KeywordData[ks[i]].sources]]]
FetchResults ==
    { Analysed(3, 2, <<"ai">>), Analysed(8, 6, <<"rust", "ai">>),
      Analysed(12, 11, <<"go", "ai">>) }

\* the exception a step's database call raises, or "none"
StepErrors == {"none", "OperationalError"}

InitPipelineState ==
    /\ sched_running = FALSE
    /\ job = NoJob
    /\ scheduler_state = [running |-> FALSE, paused |-> FALSE, interval_minutes |-> 30,
                          next_run |-> "none", total_runs |-> 0, last_error |-> "none"]
    /\ last_fire = "none"
    /\ runs = << >>
    /\ fetch_jobs = << >>
    /\ last_completed = 0
    /\ keyword_history = {}
    /\ trending_up_topics = {}
    /\ store_calls = 0
    /\ snapshot_calls = 0
    /\ today = 1

\* the deduplicator variables of a behaviour of the pipeline
InitDedupIdle ==
    /\ threshold = 5
    /\ lsh = EmptyIndex
    /\ articles = << >>
    /\ unique_articles = << >>
    /\ article_signatures = {}
    /\ duplicates = << >>
    /\ raised = "none"
    /\ op = "init"
    /\ fresh = TRUE
    /\ prev_op = "init"
    /\ prev_unique = << >>
    /\ calls = 0

\* no analyzer function has been called
NoRequest == [op |-> "none"]
NoResponse == [raised |-> "none"]

InitAnalyzersIdle ==
    /\ request = NoRequest
    /\ response = NoResponse

(***************************************************************************)
(* The operations of an ArticleDeduplicator instance.  A second call on    *)
(* the instance is made with the batch of the first.                       *)
(***************************************************************************)
InitDedup ==
    /\ threshold \in Thresholds
    /\ lsh = EmptyIndex
    /\ articles = << >>
    /\ unique_articles = << >>
    /\ article_signatures = {}
    /\ duplicates = << >>
    /\ raised = "none"
    /\ op = "init"
    /\ fresh = TRUE
    /\ prev_op = "init"
    /\ prev_unique = << >>
    /\ calls = 0

DeduplicateArticles(batch) ==
    /\ calls < MaxCalls
    /\ LET st == DeduplicateRun(lsh, batch, threshold)
       IN  /\ lsh' = st.lsh
           /\ unique_articles' = IF st.raised = "none" THEN st.unique_articles ELSE << >>
           /\ article_signatures' = st.article_signatures
           /\ raised' = st.raised
    /\ articles' = batch
    /\ op' = "deduplicate_articles"
    /\ fresh' = (lsh = EmptyIndex)
    /\ prev_op' = op
    /\ prev_unique' = unique_articles
    /\ calls' = calls + 1
    /\ UNCHANGED <<threshold, duplicates, pipeVars, analyzerVars>>

FindDuplicates(batch) ==
    /\ calls < MaxCalls
    /\ LET st == FindRun(lsh, batch, threshold)
       IN  /\ lsh' = st.lsh
           /\ duplicates' = IF st.raised = "none" THEN st.duplicates ELSE << >>
           /\ article_signatures' = st.article_signatures
           /\ raised' = st.raised
    /\ articles' = batch
    /\ op' = "find_duplicates"
    /\ fresh' = (lsh = EmptyIndex)
    /\ prev_op' = op
    /\ prev_unique' = unique_articles
    /\ calls' = calls + 1
    /\ UNCHANGED <<threshold, unique_articles, pipeVars, analyzerVars>>

Reset ==
    /\ calls < MaxCalls
    /\ op \in {"deduplicate_articles", "find_duplicates"}
    /\ lsh' = EmptyIndex
    /\ op' = "reset"
    /\ prev_op' = op
    /\ prev_unique' = unique_articles
    /\ UNCHANGED <<threshold, articles, unique_articles, article_signatures,
                   duplicates, raised, fresh, calls, pipeVars, analyzerVars>>

\* the batches a caller passes: any batch to a new instance, the same batch again
CallBatches == IF calls = 0 THEN Batches ELSE {articles}

NextDedup ==
    \/ \E batch \in CallBatches : DeduplicateArticles(batch)
    \/ \E batch \in CallBatches : FindDuplicates(batch)
    \/ Reset

InitDeduplicator == InitDedup /\ InitPipelineState /\ InitAnalyzersIdle

SpecDedup == InitDeduplicator /\ [][NextDedup]_vars

(***************************************************************************)
(* app/analyzers/velocity_calculator.py.  A float is modelled by the       *)
(* rational it stands for, [num, den] with den > 0, compared by cross      *)
(* multiplication.  A date string is [kind, age]: "aware" carries an       *)
(* offset (or a Z, which the code rewrites to +00:00), "naive" carries     *)
(* none (what datetime.now().isoformat() and a date-only string give),     *)
(* "malformed" is not ISO; age is its distance from now, in days.          *)
(***************************************************************************)
Rat(n, d) == [num |-> n, den |-> d]
RatLess(a, b) == a.num * b.den < b.num * a.den
RatLeq(a, b) == a.num * b.den <= b.num * a.den
RatEq(a, b) == a.num * b.den = b.num * a.den

RECURSIVE SumSeq(_)
SumSeq(seq) == IF seq = << >> THEN 0 ELSE Head(seq) + SumSeq(Tail(seq))

\* datetime.fromisoformat(entry["date"].replace('Z', '+00:00')), then the
\* comparison with the timezone-aware bounds of the window
DateError(date) ==
    CASE date.kind = "malformed" -> "ValueError"
      [] date.kind = "naive" -> "TypeError"
      [] OTHER -> "none"

\* start_date <= entry_date <= end_date
InPreviousPeriod(date, timeframe_days) ==
    timeframe_days <= date.age /\ date.age <= 2 * timeframe_days

RECURSIVE PreviousMentions(_, _)
PreviousMentions(history, timeframe_days) ==
    IF history = << >> THEN << >>
    ELSE (IF InPreviousPeriod(Head(history).date, timeframe_days)
          THEN <<Head(history).mentions>> ELSE << >>)
         \o PreviousMentions(Tail(history), timeframe_days)

\* _calculate_previous_volume: [raised, value]
CalculatePreviousVolume(history, timeframe_days) ==
    IF history = << >> THEN [raised |-> "none", value |-> 0]
    ELSE LET bad == { i \in 1..Len(history) : DateError(history[i].date) # "none" }
             previous_mentions == PreviousMentions(history, timeframe_days)
         IN  IF bad # {}
             THEN [raised |-> DateError(history[CHOOSE i \in bad : \A j \in bad : i <= j].date),
                   value |-> 0]
             ELSE [raised |-> "none",
                   value |-> IF previous_mentions # << >>
                             THEN SumSeq(previous_mentions) \div Len(previous_mentions)
                             ELSE 0]

CalculateVelocity(current_volume, previous_volume, time_period_days) ==
    IF previous_volume = 0 THEN Rat(current_volume * 10, 1)
    ELSE Rat((current_volume - previous_volume) * (100 + current_volume),
             time_period_days * 100)

CalculatePercentGrowth(current_volume, previous_volume) ==
    IF previous_volume = 0
    THEN (IF current_volume > 0 THEN Rat(1000, 1) ELSE Rat(0, 1))
    ELSE Rat((current_volume - previous_volume) * 100, previous_volume)

\* historical_data.get(keyword, [])
HistoryOf(historical_data, keyword) ==
    IF keyword \in DOMAIN historical_data THEN historical_data[keyword] ELSE << >>

NewTrend(keyword, current_volume) ==
    [keyword |-> keyword, current_volume |-> current_volume, previous_volume |-> 0,
     velocity |-> Rat(current_volume * 10, 1), percent_growth |-> Rat(1000, 1),
     is_new |-> TRUE]

\* a loop body that takes a keyword without history at the noise floor already
TrendStepNewAtFloor(st, item, historical_data, timeframe_days, cfg) ==
    IF st.raised # "none" \/ item.volume < cfg.min_current_volume THEN st
    ELSE LET history == HistoryOf(historical_data, item.keyword)
         IN  IF history = << >>
             THEN [st EXCEPT !.trending = Append(@, NewTrend(item.keyword, item.volume))]
             ELSE LET prev == CalculatePreviousVolume(history, timeframe_days)
                  IN  IF prev.raised # "none" THEN [st EXCEPT !.raised = prev.raised]
                      ELSE IF RatLeq(Rat(cfg.min_growth_percent, 1),
                                     CalculatePercentGrowth(item.volume, prev.value))
                      THEN [st EXCEPT !.trending = Append(@,
                              [keyword |-> item.keyword, current_volume |-> item.volume,
                               previous_volume |-> prev.value,
                               velocity |-> CalculateVelocity(item.volume, prev.value,
                                                              timeframe_days),
                               percent_growth |-> CalculatePercentGrowth(item.volume,
                                                                         prev.value),
                               is_new |-> FALSE])]
                      ELSE st

\* find_trending_up_keywords, one iteration over current_keywords.items()
TrendStep(st, item, historical_data, timeframe_days, cfg) ==
    IF st.raised # "none" \/ item.volume < cfg.min_current_volume THEN st
    ELSE LET history == HistoryOf(historical_data, item.keyword)
         IN  IF history = << >>
             THEN (IF item.volume >= cfg.min_current_volume * 2
                   THEN [st EXCEPT !.trending = Append(@, NewTrend(item.keyword, item.volume))]
                   ELSE st)
             ELSE LET prev == CalculatePreviousVolume(history, timeframe_days)
                  IN  IF prev.raised # "none" THEN [st EXCEPT !.raised = prev.raised]
                      ELSE IF RatLeq(Rat(cfg.min_growth_percent, 1),
                                     CalculatePercentGrowth(item.volume, prev.value))
                      THEN [st EXCEPT !.trending = Append(@,
                              [keyword |-> item.keyword, current_volume |-> item.volume,
                               previous_volume |-> prev.value,
                               velocity |-> CalculateVelocity(item.volume, prev.value,
                                                              timeframe_days),
                               percent_growth |-> CalculatePercentGrowth(item.volume,
                                                                         prev.value),
                               is_new |-> FALSE])]
                      ELSE st

RECURSIVE TrendLoop(_, _, _, _, _)
TrendLoop(st, items, historical_data, timeframe_days, cfg) ==
    IF items = << >> THEN st
    ELSE TrendLoop(TrendStep(st, Head(items), historical_data, timeframe_days, cfg),
                   Tail(items), historical_data, timeframe_days, cfg)

\* an insertion that puts an entry in front of the entries of its velocity
InsertByVelocityFront(sorted, entry) ==
    LET before == { i \in 1..Len(sorted) : RatLess(entry.velocity, sorted[i].velocity) }
        n == Cardinality(before)
    IN  SubSeq(sorted, 1, n) \o <<entry>> \o SubSeq(sorted, n + 1, Len(sorted))

\* list.sort(key=velocity, reverse=True) is stable: an entry goes behind the
\* entries of at least its velocity that came before it
InsertByVelocity(sorted, entry) ==
    LET before == { i \in 1..Len(sorted) : RatLeq(entry.velocity, sorted[i].velocity) }
        n == Cardinality(before)
    IN  SubSeq(sorted, 1, n) \o <<entry>> \o SubSeq(sorted, n + 1, Len(sorted))

RECURSIVE SortByVelocity(_)
SortByVelocity(seq) ==
    IF seq = << >> THEN << >>
    ELSE InsertByVelocity(SortByVelocity(SubSeq(seq, 1, Len(seq) - 1)), seq[Len(seq)])

\* find_trending_up_keywords: [raised, value]
FindTrendingUpKeywords(current_keywords, historical_data, timeframe_days, cfg) ==
    LET st == TrendLoop([trending |-> << >>, raised |-> "none"], current_keywords,
                        historical_data, timeframe_days, cfg)
    IN  IF st.raised # "none" THEN [raised |-> st.raised, value |-> << >>]
        ELSE [raised |-> "none", value |-> SortByVelocity(st.trending)]

\* the slice seq[:n] of Python
SliceTo(seq, n) ==
    IF n >= 0 THEN SubSeq(seq, 1, IF n < Len(seq) THEN n ELSE Len(seq))
    ELSE SubSeq(seq, 1, IF Len(seq) + n > 0 THEN Len(seq) + n ELSE 0)

\* get_top_trending_up: [raised, value]
GetTopTrendingUp(current_keywords, historical_data, timeframe_days, top_n, cfg) ==
    LET trending == FindTrendingUpKeywords(current_keywords, historical_data,
                                           timeframe_days, cfg)
    IN  [trending EXCEPT !.value = SliceTo(@, top_n)]

(***************************************************************************)
(* app/scheduler.py.  The AsyncIOScheduler is modelled by sched_running    *)
(* and by its one job.  A task started by the interval trigger counts      *)
(* towards max_instances of the executor that started it (run.counted);    *)
(* shutdown cancels the executor's unfinished tasks, and the fresh         *)
(* scheduler made afterwards counts none of the earlier ones.              *)
(***************************************************************************)
StoreVars == <<keyword_history, trending_up_topics, store_calls, snapshot_calls>>

StartedState(interval_minutes) ==
    [scheduler_state EXCEPT !.running = TRUE, !.paused = FALSE,
                            !.interval_minutes = interval_minutes,
                            !.next_run = "time"]

StartScheduler(interval_minutes) ==
    /\ job' = [exists |-> TRUE, paused |-> FALSE, interval |-> interval_minutes]
    /\ sched_running' = TRUE
    /\ scheduler_state' = StartedState(interval_minutes)
    /\ UNCHANGED <<dedupVars, analyzerVars, last_fire, runs, fetch_jobs, last_completed, StoreVars, today>>

\* a stop that leaves the paused flag as it is
StopSchedulerKeepsPaused ==
    /\ IF sched_running
       THEN /\ sched_running' = FALSE
            /\ job' = NoJob
            /\ runs' = [r \in DOMAIN runs |->
                          IF runs[r].counted /\ runs[r].pc # "done"
                          THEN [runs[r] EXCEPT !.pc = "cancelled", !.counted = FALSE]
                          ELSE [runs[r] EXCEPT !.counted = FALSE]]
       ELSE UNCHANGED <<sched_running, job, runs>>
    /\ scheduler_state' = [scheduler_state EXCEPT !.running = FALSE, !.next_run = "none"]
    /\ UNCHANGED <<dedupVars, analyzerVars, last_fire, fetch_jobs, last_completed, StoreVars, today>>

StopScheduler ==
    /\ IF sched_running
       THEN /\ sched_running' = FALSE
            /\ job' = NoJob
            /\ runs' = [r \in DOMAIN runs |->
                          IF runs[r].counted /\ runs[r].pc # "done"
                          THEN [runs[r] EXCEPT !.pc = "cancelled", !.counted = FALSE]
                          ELSE [runs[r] EXCEPT !.counted = FALSE]]
       ELSE UNCHANGED <<sched_running, job, runs>>
    /\ scheduler_state' = [scheduler_state EXCEPT !.running = FALSE, !.paused = FALSE,
                                                  !.next_run = "none"]
    /\ UNCHANGED <<dedupVars, analyzerVars, last_fire, fetch_jobs, last_completed, StoreVars, today>>

PauseScheduler ==
    /\ IF job.exists
       THEN /\ job' = [job EXCEPT !.paused = TRUE]
            /\ scheduler_state' = [scheduler_state EXCEPT !.paused = TRUE,
                                                          !.next_run = "none"]
       ELSE UNCHANGED <<job, scheduler_state>>
    /\ UNCHANGED <<dedupVars, analyzerVars, sched_running, last_fire, runs, fetch_jobs, last_completed, StoreVars, today>>

ResumeScheduler ==
    /\ IF job.exists
       THEN /\ job' = [job EXCEPT !.paused = FALSE]
            /\ scheduler_state' = [scheduler_state EXCEPT !.paused = FALSE,
                                                          !.next_run = "time"]
       ELSE UNCHANGED <<job, scheduler_state>>
    /\ UNCHANGED <<dedupVars, analyzerVars, sched_running, last_fire, runs, fetch_jobs, last_completed, StoreVars, today>>

UpdateInterval(interval_minutes) ==
    IF scheduler_state.running /\ ~scheduler_state.paused
    THEN StartScheduler(interval_minutes)
    ELSE /\ scheduler_state' = [scheduler_state EXCEPT
                                  !.interval_minutes = interval_minutes]
         /\ UNCHANGED <<dedupVars, analyzerVars, sched_running, job, last_fire, runs, fetch_jobs,
                        last_completed, StoreVars, today>>

(***************************************************************************)
(* The pipeline task fetch_and_process_content.  A task is at one of its   *)
(* awaits: "fetch" (the fetchers, then deduplication, keyword extraction,  *)
(* scoring and the hot-topic writes), "store_history", "get_history" (the  *)
(* read of the history and the velocity step), "store_trending", or it is  *)
(* over: "done" (the job record is written in the step that ends the       *)
(* task), or "cancelled" by the shutdown of the scheduler.  The id of a    *)
(* job is the index of its task; fetched_at and the ids of rows are        *)
(* ordered by the count of stamps drawn (call).                            *)
(***************************************************************************)
NewRun(kind, sources, counted) ==
    [kind |-> kind, sources |-> sources, pc |-> "fetch", counted |-> counted,
     started_at |-> today, failed |-> {}, original |-> 0, unique |-> 0, keywords |-> << >>,
     fetched_at |-> 0, call |-> 0, trending |-> << >>, raised |-> "none"]

InProgress(r) == runs[r].pc \notin {"done", "cancelled"}

\* the feed_refresh instances the running scheduler counts
RunningInstances == { r \in DOMAIN runs : runs[r].counted /\ InProgress(r) }

\* scheduled_fetch_job up to its await: last_run and total_runs are set
ScheduledJobStarted ==
    [scheduler_state EXCEPT !.total_runs = @ + 1]

\* the interval trigger fires: the executor starts scheduled_fetch_job unless
\* max_instances instances of the job are running, and then skips the run
IntervalFire ==
    /\ sched_running /\ job.exists /\ ~job.paused
    /\ IF Cardinality(RunningInstances) >= MaxInstances
       THEN /\ last_fire' = "skipped"
            /\ UNCHANGED <<runs, scheduler_state>>
       ELSE /\ Len(runs) < MaxRuns
            /\ last_fire' = "started"
            /\ runs' = Append(runs, NewRun("interval", {}, TRUE))
            /\ scheduler_state' = ScheduledJobStarted
    /\ UNCHANGED <<dedupVars, analyzerVars, sched_running, job, fetch_jobs, last_completed,
                   StoreVars, today>>

\* POST /api/scheduler/trigger: asyncio.create_task(scheduled_fetch_job())
TriggerImmediateFetch ==
    /\ Len(runs) < MaxRuns
    /\ runs' = Append(runs, NewRun("immediate", {}, FALSE))
    /\ scheduler_state' = ScheduledJobStarted
    /\ UNCHANGED <<dedupVars, analyzerVars, sched_running, job, last_fire, fetch_jobs,
                   last_completed, StoreVars, today>>

\* POST /api/fetch: the job is recorded and the background task started
TriggerFetch(sources) ==
    /\ Len(runs) < MaxRuns
    /\ runs' = Append(runs, NewRun("api", sources, FALSE))
    /\ fetch_jobs' = [j \in (DOMAIN fetch_jobs) \cup {Len(runs) + 1} |->
                        IF j = Len(runs) + 1
                        THEN [status |-> "running", started_at |-> today]
                        ELSE fetch_jobs[j]]
    /\ UNCHANGED <<dedupVars, analyzerVars, sched_running, job, scheduler_state, last_fire,
                   last_completed, StoreVars, today>>

\* `not sources or name in sources`
Wanted(sources, name) == sources = {} \/ name \in sources

Smaller(a, b) == IF a < b THEN a ELSE b

\* the record of a job whose task reached the end of the try block
CompletedJob(record, run) ==
    [status |-> "completed", started_at |-> record.started_at, completed_at |-> today,
     results |-> [articles_fetched |-> run.original,
                  articles_unique |-> run.unique,
                  keywords_extracted |-> Len(run.keywords),
                  hot_topics_stored |-> Smaller(Len(run.keywords), 5) * 3,
                  keyword_history_stored |-> Len(run.keywords)]]

\* a handler that stamps the record anew
FailedJobRestamped(record, error) ==
    [status |-> "failed", error |-> error, started_at |-> today, failed_at |-> today]

\* the record the exception handler writes
FailedJob(record, error) ==
    [status |-> "failed", error |-> error, started_at |-> record.started_at,
     failed_at |-> today]

\* the end of task r, run being its locals and error what the try block
\* raised ("none": it reached its end).  fetch_jobs[job_id]["started_at"]
\* raises KeyError for a job id that trigger_fetch did not record, in the try
\* block and again in the handler; scheduled_fetch_job catches what escapes
\* and stores it as last_error
EndRun(r, run, error) ==
    LET recorded == r \in DOMAIN fetch_jobs
        escaped == IF recorded THEN "none" ELSE "KeyError"
    IN  /\ runs' = [runs EXCEPT ![r] = [run EXCEPT !.pc = "done", !.raised = error]]
        /\ fetch_jobs' =
             IF ~recorded THEN fetch_jobs
             ELSE [fetch_jobs EXCEPT ![r] = IF error = "none" THEN CompletedJob(@, run)
                                            ELSE FailedJob(@, error)]
        /\ last_completed' = IF recorded /\ error = "none" THEN r ELSE last_completed
        /\ scheduler_state' =
             IF run.kind = "api" THEN scheduler_state
             ELSE [scheduler_state EXCEPT !.last_error = escaped]

\* steps 1 to 5.  A fetcher catches the failure of its source and returns no
\* articles; the rss branch ends in rss.fetch_user_feeds, which app/fetchers/
\* rss.py does not define (AttributeError).  fetched_at is the clock when the
\* hot topics are stored
FetchAndAnalyze(r, failed, result, err) ==
    /\ runs[r].pc = "fetch"
    /\ failed \subseteq { name \in AllSources : Wanted(runs[r].sources, name) }
    /\ Cardinality(failed) <= 1
    /\ \A i \in DOMAIN result.keywords :
          result.keywords[i].sources \cap { SourceName[name] : name \in failed } = {}
    /\ LET run == [runs[r] EXCEPT !.failed = failed, !.original = result.original,
                                  !.unique = result.unique, !.keywords = result.keywords]
       IN  IF Wanted(runs[r].sources, "rss")
           THEN /\ result = NoArticles /\ err = "none"
                /\ EndRun(r, [runs[r] EXCEPT !.failed = failed], "AttributeError")
                /\ UNCHANGED store_calls
           ELSE IF err # "none"
           THEN /\ EndRun(r, run, err)
                /\ UNCHANGED store_calls
           ELSE /\ runs' = [runs EXCEPT ![r] = [run EXCEPT !.pc = "store_history",
                                                           !.fetched_at = today,
                                                           !.call = store_calls + 1]]
                /\ store_calls' = store_calls + 1
                /\ UNCHANGED <<fetch_jobs, last_completed, scheduler_state>>
    /\ UNCHANGED <<dedupVars, analyzerVars, sched_running, job, last_fire, keyword_history,
                   trending_up_topics, snapshot_calls, today>>

\* database.store_keyword_history: one INSERT per keyword, under a new id,
\* dated fetched_at.isoformat() (a timestamp)
KeywordRows(call, kws, day, stamp) ==
    { [id |-> [call |-> call, keyword |-> k], keyword |-> k,
       mentions |-> kws[k].mentions, sources |-> kws[k].sources,
       day |-> day, stamp |-> stamp] : k \in DOMAIN kws }

StoreKeywordHistory(rows, kws, call, date) ==
    rows \cup KeywordRows(call, kws, date, "datetime")

\* the keywords of a run's keyword list
KeywordsOf(run) == { run.keywords[i].keyword : i \in DOMAIN run.keywords }

\* step 6; lost are the keywords whose INSERT raised (the loop logs it and
\* goes on), err is what opening the database raised
StoreHistoryStep(r, lost, err) ==
    /\ runs[r].pc = "store_history"
    /\ lost \subseteq KeywordsOf(runs[r])
    /\ IF err # "none"
       THEN /\ lost = {}
            /\ EndRun(r, runs[r], err)
            /\ UNCHANGED keyword_history
       ELSE /\ keyword_history' =
                 StoreKeywordHistory(keyword_history,
                                     [k \in KeywordsOf(runs[r]) \ lost |-> KeywordData[k]],
                                     runs[r].call, runs[r].fetched_at)
            /\ runs' = [runs EXCEPT ![r].pc = "get_history"]
            /\ UNCHANGED <<fetch_jobs, last_completed, scheduler_state>>
    /\ UNCHANGED <<dedupVars, analyzerVars, sched_running, job, last_fire,
                   trending_up_topics, store_calls, snapshot_calls, today>>

\* ORDER BY date ASC over the stored strings: a date-only string sorts
\* before the timestamps of its day, timestamps in the order they were drawn
RowBefore(a, b) ==
    \/ a.day < b.day
    \/ a.day = b.day /\ a.stamp = "date" /\ b.stamp = "datetime"
    \/ a.day = b.day /\ a.stamp = b.stamp /\ a.id.call < b.id.call

RECURSIVE RowsByDate(_)
RowsByDate(rows) ==
    IF rows = {} THEN << >>
    ELSE LET first == CHOOSE a \in rows : \A b \in rows \ {a} : RowBefore(a, b)
         IN  <<first>> \o RowsByDate(rows \ {first})

\* date >= datetime('now', '-<days> days'), a comparison of strings: on the
\* day of the bound a timestamp ("...T...") is above it, a date-only string
\* (a prefix of it) below
InHistoryWindow(row, now, days) ==
    \/ row.day > now - days
    \/ row.day = now - days /\ row.stamp = "datetime"

\* what a caller gets of a row: the date string as stored (without offset)
HistoryEntry(row, now) ==
    [date |-> [kind |-> "naive", age |-> now - row.day], mentions |-> row.mentions]

\* database.get_all_keywords_history: keyword -> its entries by date
GetAllKeywordsHistory(rows, now, days) ==
    LET selected == { row \in rows : InHistoryWindow(row, now, days) }
        of(k) == RowsByDate({ row \in selected : row.keyword = k })
    IN  [k \in { row.keyword : row \in selected } |->
           [i \in 1..Len(of(k)) |-> HistoryEntry(of(k)[i], now)]]

\* calculate_trending_up: a VelocityCalculator(min_growth_percent=min_growth)
\* with the default min_current_volume, and its get_top_trending_up
CalculateTrendingUp(current_keywords, historical_data, timeframe_days, top_n, min_growth) ==
    GetTopTrendingUp(current_keywords, historical_data, timeframe_days, top_n,
                     [min_growth_percent |-> min_growth, min_current_volume |-> 5])

\* current_keywords_dict of step 7, in the order of the keywords list
CurrentKeywordsDict(keywords) ==
    [i \in 1..Len(keywords) |->
       [keyword |-> keywords[i].keyword, volume |-> keywords[i].mentions]]

\* what step 7 computes after its read: the history of the last 14 days
\* and, when there is any, calculate_trending_up(top_n=5, min_growth=50) with
\* the default timeframe of 7 days: [raised, value]
FoundTrending(run) ==
    LET history == GetAllKeywordsHistory(keyword_history, today, 14)
    IN  IF DOMAIN history = {} THEN [raised |-> "none", value |-> << >>]
        ELSE CalculateTrendingUp(CurrentKeywordsDict(run.keywords), history, 7, 5, 50)

\* step 7 up to its next await; err is what the read raised, found the
\* outcome of the velocity step; without topics the task ends here
GetHistoryStep(r, err) ==
    /\ runs[r].pc = "get_history"
    /\ \E found \in {FoundTrending(runs[r])} :
          IF err # "none" THEN EndRun(r, runs[r], err)
          ELSE IF found.raised # "none" THEN EndRun(r, runs[r], found.raised)
          ELSE IF found.value = << >> THEN EndRun(r, runs[r], "none")
          ELSE /\ runs' = [runs EXCEPT ![r] = [@ EXCEPT !.pc = "store_trending",
                                                        !.trending = found.value]]
               /\ UNCHANGED <<fetch_jobs, last_completed, scheduler_state>>
    /\ UNCHANGED <<dedupVars, analyzerVars, sched_running, job, last_fire, StoreVars, today>>

\* database.store_trending_up_topics for the three timeframes
StoreTrendingUpTopics(rows, topics, fetched_at) ==
    rows \cup { [timeframe |-> tf, fetched_at |-> fetched_at, rank |-> i,
                 topic |-> topics[i]] :
                tf \in {"7day", "14day", "30day"}, i \in DOMAIN topics }

\* the trending-up writes, then the job record
StoreTrendingStep(r, err) ==
    /\ runs[r].pc = "store_trending"
    /\ IF err # "none"
       THEN /\ EndRun(r, runs[r], err)
            /\ UNCHANGED trending_up_topics
       ELSE /\ trending_up_topics' =
                 StoreTrendingUpTopics(trending_up_topics, runs[r].trending, runs[r].call)
            /\ EndRun(r, runs[r], "none")
    /\ UNCHANGED <<dedupVars, analyzerVars, sched_running, job, last_fire, keyword_history,
                   store_calls, snapshot_calls, today>>

\* database.get_trending_up_topics: the rows of the latest fetchedAt of the
\* timeframe, by rank
GetTrendingUpTopics(rows, timeframe, limit) ==
    LET of_timeframe == { row \in rows : row.timeframe = timeframe }
    IN  IF of_timeframe = {} THEN << >>
        ELSE LET latest_fetch == CHOOSE f \in { row.fetched_at : row \in of_timeframe } :
                                   \A row \in of_timeframe : row.fetched_at <= f
                 latest == { row \in of_timeframe : row.fetched_at = latest_fetch }
                 n == Smaller(Cardinality(latest), limit)
             IN  [i \in 1..n |-> (CHOOSE row \in latest : row.rank = i).topic]

(***************************************************************************)
(* HistoricalSnapshotService.create_snapshot: per keyword, the row of      *)
(* today (a date, not a timestamp) is looked up, and updated if there is   *)
(* one, inserted if not.  The call is modelled as one step.                *)
(***************************************************************************)
SnapshotMatches(row, keyword, day) ==
    row.keyword = keyword /\ row.day = day /\ row.stamp = "date"

CreateSnapshotRows(rows, keyword_data, call, day) ==
    LET existing(k) == { row \in rows : SnapshotMatches(row, k, day) }
        updated == { IF row.keyword \in DOMAIN keyword_data
                        /\ SnapshotMatches(row, row.keyword, day)
                     THEN [row EXCEPT !.mentions = keyword_data[row.keyword].mentions,
                                      !.sources = keyword_data[row.keyword].sources]
                     ELSE row : row \in rows }
        missing == { k \in DOMAIN keyword_data : existing(k) = {} }
    IN  updated \cup KeywordRows(call, [k \in missing |-> keyword_data[k]], day, "date")

CreateSnapshot(keyword_data) ==
    /\ snapshot_calls < MaxSnapshots
    /\ keyword_history' = CreateSnapshotRows(keyword_history, keyword_data,
                                             store_calls + 1, today)
    /\ store_calls' = store_calls + 1
    /\ snapshot_calls' = snapshot_calls + 1
    /\ UNCHANGED <<dedupVars, analyzerVars, sched_running, job, scheduler_state, last_fire, runs,
                   fetch_jobs, last_completed, trending_up_topics, today>>

\* midnight (UTC) passes
NextDay(last_day) ==
    /\ today < last_day
    /\ today' = today + 1
    /\ UNCHANGED <<dedupVars, analyzerVars, sched_running, job, scheduler_state, last_fire, runs, fetch_jobs,
                   last_completed, StoreVars>>

\* what steps 1 to 4 may yield
FetchOutcomes == FetchResults \cup {NoArticles}
PlainOutcomes == {NoArticles, Analysed(3, 2, <<"ai">>), Analysed(12, 11, <<"go", "ai">>)}

NextPipeline ==
    \/ \E m \in Intervals : StartScheduler(m)
    \/ StopScheduler
    \/ PauseScheduler
    \/ ResumeScheduler
    \/ \E m \in Intervals : UpdateInterval(m)
    \/ IntervalFire
    \/ TriggerImmediateFetch
    \/ \E sources \in SourceArgs : TriggerFetch(sources)
    \/ \E r \in DOMAIN runs, result \in PlainOutcomes : FetchAndAnalyze(r, {}, result, "none")
    \/ \E r \in DOMAIN runs, lost \in {{}, {"go"}} : StoreHistoryStep(r, lost, "none")
    \/ \E r \in DOMAIN runs : GetHistoryStep(r, "none")
    \/ \E r \in DOMAIN runs : StoreTrendingStep(r, "none")
    \/ \E kd \in KeywordResults : CreateSnapshot(kd)
    \/ NextDay(MaxDay)

InitPipeline == InitPipelineState /\ InitDedupIdle /\ InitAnalyzersIdle

SpecPipeline == InitPipeline /\ [][NextPipeline]_vars

(***************************************************************************)
(* The pipeline tasks with the failures of their environment: a source     *)
(* that does not answer, a database call that raises.  The tasks are       *)
(* started by POST /api/fetch and POST /api/scheduler/trigger; the clock   *)
(* runs a day longer.                                                      *)
(***************************************************************************)
NextJobs ==
    \/ TriggerImmediateFetch
    \/ \E sources \in SourceArgs : TriggerFetch(sources)
    \/ \E r \in DOMAIN runs, failed \in SUBSET AllSources, result \in FetchOutcomes,
          err \in StepErrors : FetchAndAnalyze(r, failed, result, err)
    \/ \E r \in DOMAIN runs, lost \in SUBSET Keywords, err \in StepErrors :
          StoreHistoryStep(r, lost, err)
    \/ \E r \in DOMAIN runs, err \in StepErrors : GetHistoryStep(r, err)
    \/ \E r \in DOMAIN runs, err \in StepErrors : StoreTrendingStep(r, err)
    \/ NextDay(MaxDay + 1)

InitJobs == InitPipelineState /\ InitDedupIdle /\ InitAnalyzersIdle

SpecJobs == InitJobs /\ [][NextJobs]_vars

(***************************************************************************)
(* The tasks of POST /api/fetch under the scheduling of the event loop: a  *)
(* task whose await has returned or raised is resumed.                     *)
(***************************************************************************)
TrendOutcomes == {NoArticles, Analysed(12, 11, <<"go", "ai">>)}

RunStep(r) ==
    /\ r \in DOMAIN runs
    /\ \/ \E result \in TrendOutcomes, err \in StepErrors :
             FetchAndAnalyze(r, {}, result, err)
       \/ \E lost \in {{}, {"go"}}, err \in StepErrors : StoreHistoryStep(r, lost, err)
       \/ \E err \in StepErrors : GetHistoryStep(r, err)
       \/ \E err \in StepErrors : StoreTrendingStep(r, err)

NextFairJobs ==
    \/ \E sources \in SourceArgs : TriggerFetch(sources)
    \/ \E r \in DOMAIN runs, result \in TrendOutcomes, err \in StepErrors :
          FetchAndAnalyze(r, {}, result, err)
    \/ \E r \in DOMAIN runs, lost \in {{}, {"go"}}, err \in StepErrors :
          StoreHistoryStep(r, lost, err)
    \/ \E r \in DOMAIN runs, err \in StepErrors : GetHistoryStep(r, err)
    \/ \E r \in DOMAIN runs, err \in StepErrors : StoreTrendingStep(r, err)
    \/ NextDay(MaxDay)

InitFairJobs == InitPipelineState /\ InitDedupIdle /\ InitAnalyzersIdle

FairSpecJobs ==
    InitFairJobs /\ [][NextFairJobs]_vars /\ \A r \in 1..MaxRuns : WF_vars(RunStep(r))

\* C1: at most one pipeline task is in progress at any time.
C1_AtMostOneRun ==
    Cardinality({ r \in DOMAIN runs : InProgress(r) }) <= 1

\* C2: the keyword history holds at most one row per keyword and calendar day.
C2_OneRowPerKeywordDay ==
    \A r1, r2 \in keyword_history :
        (r1.keyword = r2.keyword /\ r1.day = r2.day) => r1.id = r2.id

(***************************************************************************)
(* Notions the claims about the deduplicator share.                        *)
(***************************************************************************)
\* deduplicate_articles has just returned on an instance whose index was empty
FreshDedupDone == op = "deduplicate_articles" /\ fresh

\* the positions (idx, from 0) of a batch
Positions(batch) == 0..(Len(batch) - 1)

\* the articles of the batch at the positions of `kept`, in input order
RECURSIVE KeptSeq(_, _, _)
KeptSeq(batch, kept, idx) ==
    IF idx >= Len(batch) THEN << >>
    ELSE IF idx \in kept THEN <<batch[idx + 1]>> \o KeptSeq(batch, kept, idx + 1)
    ELSE KeptSeq(batch, kept, idx + 1)

UrlEqual(a1, a2) == a1.url # "" /\ a1.url = a2.url

SignatureSimilar(a1, a2, t) == SameBucket(Signatures[a1], Signatures[a2], t)

\* C3: a fresh deduplicate_articles keeps the input order, keeps the first
\* article, and drops an article only if an earlier article that it kept is
\* URL-equal or signature-similar to it.
C3_FirstSeenRetained ==
    FreshDedupDone =>
        /\ raised = "none"
        /\ unique_articles = KeptSeq(articles, article_signatures, 0)
        /\ articles # << >> => (0 \in article_signatures /\ unique_articles[1] = articles[1])
        /\ \A j \in Positions(articles) \ article_signatures :
              \E i \in article_signatures :
                  /\ i < j
                  /\ \/ UrlEqual(articles[i + 1], articles[j + 1])
                     \/ SignatureSimilar(articles[i + 1], articles[j + 1], threshold)

\* a pass that kept two articles and dropped one that has no kept URL-equal
C3_Witness ==
    /\ FreshDedupDone
    /\ Len(unique_articles) >= 2
    /\ \E j \in Positions(articles) \ article_signatures :
          \A i \in article_signatures : ~UrlEqual(articles[i + 1], articles[j + 1])

\* C4: the output of one pass holds no article whose non-empty url was the
\* url of an earlier article of the input, kept or dropped.
C4_NoSeenUrlInOutput ==
    FreshDedupDone =>
        \A j \in article_signatures :
            ~ \E i \in Positions(articles) :
                i < j /\ UrlEqual(articles[i + 1], articles[j + 1])

\* C5: an article with no shingle (no content, or fewer than three words) is
\* dropped only if its non-empty url is that of an earlier article.
C5_EmptyContentNotDropped ==
    FreshDedupDone =>
        \A j \in Positions(articles) \ article_signatures :
            ArticleShingles(articles[j + 1]) = {} =>
                \E i \in Positions(articles) :
                    i < j /\ UrlEqual(articles[i + 1], articles[j + 1])

\* C6: two articles with the same title and text and different urls collapse
\* to the first, at every threshold.
IdenticalPair ==
    /\ Len(articles) = 2
    /\ articles[1].title = articles[2].title
    /\ articles[1].text = articles[2].text
    /\ articles[1].url # articles[2].url

C6_IdenticalCollapse ==
    (FreshDedupDone /\ IdenticalPair) => unique_articles = <<articles[1]>>

\* an identical pair with content, at the highest threshold
C6_Witness ==
    /\ FreshDedupDone
    /\ IdenticalPair
    /\ threshold = 9
    /\ ArticleShingles(articles[1]) # {}
    /\ Len(unique_articles) = 1

\* C7: a pass at a lower threshold returns at most as many articles as a pass
\* over the same batch at a higher threshold.
C7_ThresholdMonotone ==
    FreshDedupDone =>
        \A t \in Thresholds :
            t >= threshold => Len(unique_articles) <= Len(Deduplicate(articles, t))

\* C8: a batch of pairwise-dissimilar articles is returned as it is, and a
\* second pass over the output of a pass returns that output.
PairwiseDissimilar(batch, t) ==
    \A i, j \in 1..Len(batch) :
        i < j => ~UrlEqual(batch[i], batch[j]) /\ ~SignatureSimilar(batch[i], batch[j], t)

C9_NoStateAcrossPasses ==
    (op = "deduplicate_articles" /\ prev_op = "deduplicate_articles") =>
        /\ raised = "none"
        /\ unique_articles = prev_unique
        /\ unique_articles = Deduplicate(articles, threshold)

\* C10: the keys of the mapping find_duplicates returns are ids of kept
\* (first-seen) articles, and the articles listed under a key come later in
\* the input than the key's article.
C10_KeysAreKept ==
    (op = "find_duplicates" /\ fresh) =>
        \A k \in DOMAIN duplicates :
            /\ k \in DeduplicateRun(EmptyIndex, articles, threshold).article_signatures
            /\ \A d \in duplicates[k] : d > k

(***************************************************************************)
(* The spike detection of the velocity calculator.                         *)
(***************************************************************************)
\* a z-score is num / sqrt(radicand), radicand > 0
ZScore(n, radicand) == [num |-> n, radicand |-> radicand]
ZeroZ == ZScore(0, 1)

\* z >= t and z > t for a rational t
ZGeq(z, t) ==
    IF t.num >= 0
    THEN z.num >= 0 /\ z.num * z.num * t.den * t.den >= t.num * t.num * z.radicand
    ELSE z.num >= 0 \/ z.num * z.num * t.den * t.den <= t.num * t.num * z.radicand
ZGreater(z, t) ==
    IF t.num >= 0
    THEN z.num > 0 /\ z.num * z.num * t.den * t.den > t.num * t.num * z.radicand
    ELSE z.num >= 0 \/ z.num * z.num * t.den * t.den < t.num * t.num * z.radicand

RECURSIVE SumSquares(_)
SumSquares(seq) ==
    IF seq = << >> THEN 0 ELSE Head(seq) * Head(seq) + SumSquares(Tail(seq))

\* detect_spike over the mentions of the history: [is_spike, z_score]; with
\* n points of sum S and sum of squares Q, mean = S/n, std_dev =
\* sqrt(n*Q - S*S)/n and z_score = (n*current_volume - S)/sqrt(n*Q - S*S)
DetectSpike(current_volume, historical_volumes, spike_threshold) ==
    LET n == Len(historical_volumes)
        S == SumSeq(historical_volumes)
        Q == SumSquares(historical_volumes)
    IN  IF n < 3 THEN [is_spike |-> FALSE, z_score |-> ZeroZ]
        ELSE IF n * Q - S * S = 0
        THEN [is_spike |-> current_volume * n > S * 2, z_score |-> ZeroZ]
        ELSE LET z_score == ZScore(n * current_volume - S, n * Q - S * S)
             IN  [is_spike |-> ZGeq(z_score, spike_threshold), z_score |-> z_score]

(***************************************************************************)
(* The arguments the velocity calculator is called with.                   *)
(***************************************************************************)
VcKeywords == {"ai", "rust", "go"}
Volumes == {1, 4, 6, 10}
Timeframes == {1, 2}
VcConfigs ==
    [min_growth_percent : {50, 1500}, min_current_volume : {2, 5}]

\* current_keywords, in the iteration order of the dict
CurrentKeywords ==
    { ck \in UNION { [1..n -> [keyword : VcKeywords, volume : Volumes]] :
                       n \in 0..MaxKeywords } :
        \A i, j \in DOMAIN ck : i # j => ck[i].keyword # ck[j].keyword }

HistoryDates ==
    { [kind |-> "aware", age |-> 0], [kind |-> "aware", age |-> 1],
      [kind |-> "aware", age |-> 2], [kind |-> "aware", age |-> 5],
      [kind |-> "naive", age |-> 2], [kind |-> "malformed", age |-> 0] }
HistoryEntries ==
    { e \in [date : HistoryDates, mentions : {3, 4, 9}] :
        e.mentions # 3 => (e.date.kind = "aware" /\ e.date.age \in {0, 2}) }
Histories == UNION { [1..n -> HistoryEntries] : n \in 0..MaxHistory }

\* historical_data: "go" has no entry, the others at most one point each
HistoricalData == [{"ai", "rust"} -> { h \in Histories : Len(h) <= 1 }]

SpikeVolumes == {55, 101, 500}
SpikeThresholds == {Rat(2, 1), Rat(3, 1)}
SpikeHistories ==
    { [i \in 1..n |-> 50] : n \in {0, 2, 3, 10} } \cup [1..3 -> {40, 50, 60}]

(***************************************************************************)
(* Calls of the velocity calculator.                                       *)
(***************************************************************************)
Idle == request.op = "none"

FindTrendingUpCall ==
    /\ Idle
    /\ \E ck \in CurrentKeywords, hd \in HistoricalData, tf \in Timeframes,
          cfg \in VcConfigs :
          /\ request' = [op |-> "find_trending_up_keywords", current_keywords |-> ck,
                         historical_data |-> hd, timeframe_days |-> tf, cfg |-> cfg]
          /\ response' = FindTrendingUpKeywords(ck, hd, tf, cfg)
    /\ UNCHANGED <<dedupVars, pipeVars>>

GetTopTrendingUpCall ==
    /\ Idle
    /\ \E ck \in CurrentKeywords, hd \in HistoricalData, tf \in Timeframes,
          cfg \in VcConfigs, top_n \in 0..MaxTopN :
          /\ request' = [op |-> "get_top_trending_up", current_keywords |-> ck,
                         historical_data |-> hd, timeframe_days |-> tf, cfg |-> cfg,
                         top_n |-> top_n]
          /\ response' = GetTopTrendingUp(ck, hd, tf, top_n, cfg)
    /\ UNCHANGED <<dedupVars, pipeVars>>

CalculatePreviousVolumeCall ==
    /\ Idle
    /\ \E history \in Histories, tf \in Timeframes :
          /\ request' = [op |-> "_calculate_previous_volume", history |-> history,
                         timeframe_days |-> tf]
          /\ response' = CalculatePreviousVolume(history, tf)
    /\ UNCHANGED <<dedupVars, pipeVars>>

DetectSpikeCall ==
    /\ Idle
    /\ \E cv \in SpikeVolumes, hv \in SpikeHistories, t \in SpikeThresholds :
          /\ request' = [op |-> "detect_spike", current_volume |-> cv,
                         historical_volumes |-> hv, spike_threshold |-> t]
          /\ response' = [raised |-> "none", value |-> DetectSpike(cv, hv, t)]
    /\ UNCHANGED <<dedupVars, pipeVars>>

(***************************************************************************)
(* app/analyzers/hot_scorer.py.  A score is the rational it stands for; a  *)
(* source weight is in tenths (15 is 1.5).  published_at is [kind, hours]: *)
(* "aware" parses to a timestamp with an offset, hours before now          *)
(* (negative: in the future); "naive" parses to one without offset, and    *)
(* now - pub_time raises TypeError; "invalid" does not parse; "missing" is *)
(* None or ''.  The exponent gravity is taken to be a whole number.        *)
(***************************************************************************)
Gravity == 2

RECURSIVE Pow(_, _)
Pow(base, exponent) == IF exponent = 0 THEN 1 ELSE base * Pow(base, exponent - 1)

ZeroScore == Rat(0, 1)

\* a calculate_score that returns the weighted score as it is
CalculateScoreUnclamped(engagement, published_at, source_weight) ==
    IF published_at.kind # "aware" THEN ZeroScore
    ELSE LET hours_elapsed == IF published_at.hours < 0 THEN 0 ELSE published_at.hours
         IN  Rat((engagement - 1) * source_weight, 10 * Pow(hours_elapsed + 2, Gravity))

\* calculate_score: an exception of the try block gives 0.0
CalculateScore(engagement, published_at, source_weight) ==
    IF published_at.kind # "aware" THEN ZeroScore
    ELSE LET hours_elapsed == IF published_at.hours < 0 THEN 0 ELSE published_at.hours
             score == Rat((engagement - 1) * source_weight,
                          10 * Pow(hours_elapsed + 2, Gravity))
         IN  IF RatLess(score, ZeroScore) THEN ZeroScore ELSE score

\* an engagement that knows the explicit score only
ResolveEngagementScoreOnly(article) ==
    IF article.score # 0 THEN article.score ELSE 1

\* score_articles, lines 96-104: score, else comments, else 1
ResolveEngagement(article) ==
    IF article.score # 0 THEN article.score
    ELSE IF article.comments # 0 THEN article.comments
    ELSE 1

\* source_weights.get(source, 1.0)
WeightOf(source_weights, source) ==
    IF source \in DOMAIN source_weights THEN source_weights[source] ELSE 10

ScoreArticle(article, source_weights) ==
    [article |-> article,
     hot_score |-> IF article.published_at.kind = "missing" THEN ZeroScore
                   ELSE CalculateScore(ResolveEngagement(article), article.published_at,
                                       WeightOf(source_weights, article.source))]

InsertByHotScore(sorted, entry) ==
    LET before == { i \in 1..Len(sorted) : RatLeq(entry.hot_score, sorted[i].hot_score) }
        n == Cardinality(before)
    IN  SubSeq(sorted, 1, n) \o <<entry>> \o SubSeq(sorted, n + 1, Len(sorted))

RECURSIVE SortByHotScore(_)
SortByHotScore(seq) ==
    IF seq = << >> THEN << >>
    ELSE InsertByHotScore(SortByHotScore(SubSeq(seq, 1, Len(seq) - 1)), seq[Len(seq)])

NoWeights == << >>

\* score_articles(articles, source_weights); source_weights = None gives {}
ScoreArticles(batch, source_weights) ==
    SortByHotScore([i \in DOMAIN batch |-> ScoreArticle(batch[i], source_weights)])

AtLeastMinScore(min_score, entry) == RatLeq(min_score, entry.hot_score)

\* get_top_hot_articles: score_articles(articles), the filter, the slice
GetTopHotArticles(batch, top_n, min_score) ==
    LET scored == ScoreArticles(batch, NoWeights)
        filtered == SelectSeq(scored, LAMBDA entry : AtLeastMinScore(min_score, entry))
    IN  SliceTo(filtered, top_n)

DEFAULT_SOURCE_WEIGHTS ==
    [s \in {"HackerNews", "Reddit", "Medium", "Substack", "Google News",
            "TechCrunch", "The Verge", "Ars Technica"} |->
        CASE s = "HackerNews" -> 15
          [] s = "Reddit" -> 10
          [] s = "Medium" -> 8
          [] s = "Substack" -> 12
          [] s = "Google News" -> 10
          [] s = "TechCrunch" -> 13
          [] s = "The Verge" -> 12
          [] s = "Ars Technica" -> 12]

\* a source_weights argument: omitted (None), or a dict
Omitted == [given |-> FALSE, weights |-> NoWeights]

\* the weights calculate_hot_scores settles on (lines 203-204)
ResolvedSourceWeights(source_weights) ==
    IF source_weights.given THEN source_weights.weights ELSE DEFAULT_SOURCE_WEIGHTS

\* calculate_hot_scores: the resolved weights are not handed on
CalculateHotScores(batch, top_n, source_weights) ==
    GetTopHotArticles(batch, top_n, Rat(1, 10))

(***************************************************************************)
(* The arguments the hot scorer is called with.                            *)
(***************************************************************************)
Engagements == {-3, 0, 1, 100}
SourceWeights == {-5, 0, 8, 10, 15}
PublishedAts ==
    { [kind |-> "aware", hours |-> 2], [kind |-> "aware", hours |-> 24],
      [kind |-> "aware", hours |-> -3], [kind |-> "naive", hours |-> 2],
      [kind |-> "invalid", hours |-> 0], [kind |-> "missing", hours |-> 0] }
HotSources == {"HackerNews", "Medium", "Blog"}
HotArticles ==
    { a \in [source : HotSources, score : Engagements, comments : {0, 50},
             published_at : PublishedAts] :
        /\ a.comments # 0 => a.score = 0
        /\ a.published_at.kind \in {"naive", "invalid"} => a.source = "Blog" }
HotBatches == UNION { [1..n -> HotArticles] : n \in 0..MaxArticles }
WeightArgs ==
    { Omitted,
      [given |-> TRUE, weights |-> [s \in {"HackerNews", "Medium"} |->
                                      IF s = "HackerNews" THEN 20 ELSE 5]] }

CalculateScoreCall ==
    /\ Idle
    /\ \E e \in Engagements, pa \in PublishedAts, w \in SourceWeights :
          /\ request' = [op |-> "calculate_score", engagement |-> e,
                         published_at |-> pa, source_weight |-> w]
          /\ response' = [raised |-> "none", value |-> CalculateScore(e, pa, w)]
    /\ UNCHANGED <<dedupVars, pipeVars>>

ScoreArticlesCall ==
    /\ Idle
    /\ \E batch \in HotBatches, sw \in WeightArgs :
          /\ request' = [op |-> "score_articles", articles |-> batch,
                         source_weights |-> sw]
          /\ response' = [raised |-> "none", value |-> ScoreArticles(batch, sw.weights)]
    /\ UNCHANGED <<dedupVars, pipeVars>>

CalculateHotScoresCall ==
    /\ Idle
    /\ \E batch \in HotBatches, sw \in WeightArgs, top_n \in 1..MaxTopN :
          /\ request' = [op |-> "calculate_hot_scores", articles |-> batch,
                         source_weights |-> sw, top_n |-> top_n]
          /\ response' = [raised |-> "none",
                          value |-> CalculateHotScores(batch, top_n, sw)]
    /\ UNCHANGED <<dedupVars, pipeVars>>

(***************************************************************************)
(* keyword_extractor.py.  A text is the sequence of its whitespace-         *)
(* separated words, the empty sequence being the empty string; a field of   *)
(* an article holds a str, an int or None.                                  *)
(***************************************************************************)
\* the arguments extract_trending_keywords constructs the extractor with
MinLength == 3
MaxWords == 3
ExtractorMaxKeywords == 10
\* the limit get_top_keywords hands to _find_articles_with_keyword
SampleLimit == 3

Str(words) == [type |-> "str", words |-> words]
\* the int 12345, held by its decimal digits
IntValue == [type |-> "int", words |-> <<"12345">>]
NoneValue == [type |-> "NoneType", words |-> << >>]

\* what an f-string makes of a value: str(value)
Format(value) == IF value.type = "NoneType" THEN <<"None">> ELSE value.words

\* words that are an HTML tag or a URL
MarkupWords == {"<p>", "https://t.co"}

\* _clean_text: tags and URLs removed, whitespace collapsed and stripped
ExtractorCleanText(text) == SelectSeq(text, LAMBDA w : w \notin MarkupWords)

\* str.lower, str.capitalize, str.isupper and len of a word
StrLower(word) ==
    CASE word \in {"GPT", "Gpt"} -> "gpt"
      [] word = "Model" -> "model"
      [] word = "None" -> "none"
      [] word = "Is" -> "is"
      [] OTHER -> word

Capitalize(word) ==
    CASE word \in {"gpt", "GPT"} -> "Gpt"
      [] word = "model" -> "Model"
      [] word = "none" -> "None"
      [] word = "is" -> "Is"
      [] OTHER -> word

IsUpper(word) == word = "GPT"

WordLen(word) ==
    CASE word \in {"gpt", "GPT", "Gpt", "<p>"} -> 3
      [] word \in {"model", "Model", "12345"} -> 5
      [] word \in {"none", "None"} -> 4
      [] word \in {"is", "Is"} -> 2
      [] OTHER -> 12

LowerPhrase(phrase) == [i \in DOMAIN phrase |-> StrLower(phrase[i])]

\* len of a phrase of at least one word: its words and the spaces between
CharLen(phrase) ==
    SumSeq([i \in DOMAIN phrase |-> WordLen(phrase[i])]) + Len(phrase) - 1

\* the stop words of the Rake instance that occur in the texts
StopWords == {"is"}

\* Rake.extract_keywords_from_text: the lowercased words are cut at stop
\* words into candidate phrases
RECURSIVE CandidatePhrases(_, _)
CandidatePhrases(words, run) ==
    IF words = << >> THEN (IF run = << >> THEN << >> ELSE <<run>>)
    ELSE LET word == StrLower(Head(words))
         IN  IF word \in StopWords
             THEN (IF run = << >> THEN << >> ELSE <<run>>)
                  \o CandidatePhrases(Tail(words), << >>)
             ELSE CandidatePhrases(Tail(words), Append(run, word))

\* Rake(min_length, max_length).get_ranked_phrases: the phrases of
\* min_length to max_length words.  A content of the texts below has at most
\* one such phrase, so the rank order does not enter.
RankedPhrases(content) ==
    SelectSeq(CandidatePhrases(content, << >>),
              LAMBDA phrase : MinLength <= Len(phrase) /\ Len(phrase) <= MaxWords)

\* _normalize_keyword: short all-caps words kept, the others capitalized
NormalizeKeyword(keyword) ==
    [i \in DOMAIN keyword |->
        IF IsUpper(keyword[i]) /\ WordLen(keyword[i]) <= 5 THEN keyword[i]
        ELSE Capitalize(keyword[i])]

\* extract_from_article, lines 81-88: first occurrences, compared lowercased
RECURSIVE UniqueKeywords(_, _)
UniqueKeywords(keywords, seen) ==
    IF keywords = << >> THEN << >>
    ELSE LET kw_lower == LowerPhrase(Head(keywords))
         IN  IF kw_lower \in seen THEN UniqueKeywords(Tail(keywords), seen)
             ELSE <<Head(keywords)>>
                  \o UniqueKeywords(Tail(keywords), seen \cup {kw_lower})

\* extract_from_article.  punkt_ready tells whether the tokenizer data of
\* nltk is installed: without it extract_keywords_from_text raises
\* LookupError, which the except branch turns into [].
ExtractFromArticle(article, punkt_ready) ==
    LET content == ExtractorCleanText(Format(article.title) \o Format(article.title)
                             \o Format(article.text))
    IN  IF content = << >> THEN << >>
        ELSE IF ~punkt_ready THEN << >>
        ELSE LET ranked == SliceTo(RankedPhrases(content), ExtractorMaxKeywords)
                 long == SelectSeq(ranked, LAMBDA kw : CharLen(kw) >= MinLength)
                 keywords == [i \in DOMAIN long |-> NormalizeKeyword(long[i])]
             IN  SliceTo(UniqueKeywords(keywords, {}), ExtractorMaxKeywords)

\* extract_from_articles, lines 111-115
RECURSIVE AllKeywords(_, _)
AllKeywords(batch, punkt_ready) ==
    IF batch = << >> THEN << >>
    ELSE ExtractFromArticle(Head(batch), punkt_ready)
         \o AllKeywords(Tail(batch), punkt_ready)

\* the keys of a Counter, in the order of their first occurrence
RECURSIVE CounterKeys(_, _)
CounterKeys(keys, seen) ==
    IF keys = << >> THEN << >>
    ELSE IF Head(keys) \in seen THEN CounterKeys(Tail(keys), seen)
    ELSE <<Head(keys)>> \o CounterKeys(Tail(keys), seen \cup {Head(keys)})

\* extract_from_articles: the dict {keyword: frequency}, as its items in
\* insertion order
ExtractFromArticles(batch, min_frequency, punkt_ready) ==
    LET all_keywords == LET found == AllKeywords(batch, punkt_ready)
                        IN  [i \in DOMAIN found |-> LowerPhrase(found[i])]
        keys == CounterKeys(all_keywords, {})
        keyword_counts ==
            [i \in DOMAIN keys |->
                [keyword |-> keys[i],
                 frequency |-> Cardinality({ j \in DOMAIN all_keywords :
                                               all_keywords[j] = keys[i] })]]
    IN  SelectSeq(keyword_counts, LAMBDA item : item.frequency >= min_frequency)

\* keyword_lower in text: the keyword is a run of words of the text
Contains(text, keyword) ==
    \E i \in 0..(Len(text) - Len(keyword)) :
        \A j \in 1..Len(keyword) : text[i + j] = keyword[j]

\* _find_articles_with_keyword: [raised, value].  .lower() of a title or
\* text that is no str raises AttributeError.
RECURSIVE FindArticlesLoop(_, _, _, _)
FindArticlesLoop(batch, keyword_lower, limit, matching_articles) ==
    IF batch = << >> THEN [raised |-> "none", value |-> matching_articles]
    ELSE LET article == Head(batch)
         IN  IF article.title.type # "str" \/ article.text.type # "str"
             THEN [raised |-> "AttributeError", value |-> << >>]
             ELSE IF \/ Contains(LowerPhrase(article.title.words), keyword_lower)
                     \/ Contains(LowerPhrase(article.text.words), keyword_lower)
             THEN LET matching == Append(matching_articles,
                                         [title |-> article.title, url |-> "",
                                          source |-> ""])
                  IN  IF Len(matching) >= limit
                      THEN [raised |-> "none", value |-> matching]
                      ELSE FindArticlesLoop(Tail(batch), keyword_lower, limit, matching)
             ELSE FindArticlesLoop(Tail(batch), keyword_lower, limit,
                                   matching_articles)

FindArticlesWithKeyword(batch, keyword, limit) ==
    FindArticlesLoop(batch, LowerPhrase(keyword), limit, << >>)

\* sorted(keyword_freq.items(), key=frequency, reverse=True): stable
InsertByFrequency(sorted, item) ==
    LET before == { i \in DOMAIN sorted : sorted[i].frequency >= item.frequency }
        k == Cardinality(before)
    IN  SubSeq(sorted, 1, k) \o <<item>> \o SubSeq(sorted, k + 1, Len(sorted))

RECURSIVE SortByFrequency(_, _)
SortByFrequency(items, sorted) ==
    IF items = << >> THEN sorted
    ELSE SortByFrequency(Tail(items), InsertByFrequency(sorted, Head(items)))

\* get_top_keywords: [raised, value]
GetTopKeywords(batch, top_n, min_frequency, punkt_ready) ==
    LET keyword_freq == ExtractFromArticles(batch, min_frequency, punkt_ready)
        sorted_keywords == SliceTo(SortByFrequency(keyword_freq, << >>), top_n)
        samples == [i \in DOMAIN sorted_keywords |->
                       FindArticlesWithKeyword(batch, sorted_keywords[i].keyword,
                                               SampleLimit)]
    IN  IF \E i \in DOMAIN samples : samples[i].raised # "none"
        THEN [raised |-> "AttributeError", value |-> << >>]
        ELSE [raised |-> "none",
              value |-> [i \in DOMAIN sorted_keywords |->
                            [keyword |-> sorted_keywords[i].keyword,
                             frequency |-> sorted_keywords[i].frequency,
                             sample_articles |-> samples[i].value]]]

(***************************************************************************)
(* The batches the keyword extractor is called with.                       *)
(***************************************************************************)
Titles == {Str(<< >>), Str(<<"gpt">>), Str(<<"GPT">>), IntValue, NoneValue}
Texts ==
    {Str(<< >>), Str(<<"model">>), Str(<<"is", "model">>), Str(<<"<p>", "model">>),
     Str(<<"gpt", "gpt", "model">>), NoneValue}
KwArticles == [title : Titles, text : Texts]
KwBatches == UNION { [1..n -> KwArticles] : n \in 0..MaxArticles }
MinFrequencies == {1, 2}

ExtractFromArticleCall ==
    /\ Idle
    /\ \E article \in KwArticles, punkt_ready \in BOOLEAN :
          /\ request' = [op |-> "extract_from_article", article |-> article,
                         punkt_ready |-> punkt_ready]
          /\ response' = [raised |-> "none",
                          value |-> ExtractFromArticle(article, punkt_ready)]
    /\ UNCHANGED <<dedupVars, pipeVars>>

ExtractFromArticlesCall ==
    /\ Idle
    /\ \E batch \in KwBatches, min_frequency \in MinFrequencies,
          punkt_ready \in BOOLEAN :
          /\ request' = [op |-> "extract_from_articles", articles |-> batch,
                         min_frequency |-> min_frequency,
                         punkt_ready |-> punkt_ready]
          /\ response' = [raised |-> "none",
                          value |-> ExtractFromArticles(batch, min_frequency,
                                                        punkt_ready)]
    /\ UNCHANGED <<dedupVars, pipeVars>>

GetTopKeywordsCall ==
    /\ Idle
    /\ \E batch \in KwBatches, min_frequency \in MinFrequencies,
          top_n \in 1..MaxTopN, punkt_ready \in BOOLEAN :
          /\ request' = [op |-> "get_top_keywords", articles |-> batch,
                         top_n |-> top_n, min_frequency |-> min_frequency,
                         punkt_ready |-> punkt_ready]
          /\ response' = GetTopKeywords(batch, top_n, min_frequency, punkt_ready)
    /\ UNCHANGED <<dedupVars, pipeVars>>

NextAnalyzers ==
    \/ FindTrendingUpCall
    \/ GetTopTrendingUpCall
    \/ CalculatePreviousVolumeCall
    \/ DetectSpikeCall
    \/ CalculateScoreCall
    \/ ScoreArticlesCall
    \/ CalculateHotScoresCall
    \/ ExtractFromArticleCall
    \/ ExtractFromArticlesCall
    \/ GetTopKeywordsCall

InitAnalyzers == InitAnalyzersIdle /\ InitDedupIdle /\ InitPipelineState

SpecAnalyzers == InitAnalyzers /\ [][NextAnalyzers]_vars

(***************************************************************************)
(* Notions the claims about the velocity calculator share.                 *)
(***************************************************************************)
\* find_trending_up_keywords has returned a list
TrendingReturned ==
    request.op = "find_trending_up_keywords" /\ response.raised = "none"

\* the position of a keyword in current_keywords (0 if it is not there)
PositionOf(current_keywords, keyword) ==
    IF \E i \in DOMAIN current_keywords : current_keywords[i].keyword = keyword
    THEN CHOOSE i \in DOMAIN current_keywords : current_keywords[i].keyword = keyword
    ELSE 0

ResultKeywords(value) == { value[i].keyword : i \in DOMAIN value }

SortedByVelocity(current_keywords, value) ==
    \A i, j \in DOMAIN value :
        i < j =>
            /\ RatLeq(value[j].velocity, value[i].velocity)
            /\ RatEq(value[j].velocity, value[i].velocity) =>
                  PositionOf(current_keywords, value[i].keyword)
                      < PositionOf(current_keywords, value[j].keyword)

\* C11: every entry find_trending_up_keywords returns has a current volume of
\* at least min_current_volume and a percent growth of at least
\* min_growth_percent.
C11_EntriesMeetThresholds ==
    TrendingReturned =>
        \A i \in DOMAIN response.value :
            /\ response.value[i].current_volume >= request.cfg.min_current_volume
            /\ RatLeq(Rat(request.cfg.min_growth_percent, 1),
                      response.value[i].percent_growth)

\* C12: an entry is marked is_new exactly when its keyword has no history
\* point; such an entry has at least twice the minimum volume, previous
\* volume 0, velocity ten times the volume and growth 1000; a keyword with no
\* history and less than twice the minimum volume is not in the result.
C12_NewTrendEntries ==
    TrendingReturned =>
        /\ \A i \in DOMAIN response.value :
              LET e == response.value[i]
              IN  /\ e.is_new <=> HistoryOf(request.historical_data, e.keyword) = << >>
                  /\ e.is_new =>
                        /\ e.current_volume >= 2 * request.cfg.min_current_volume
                        /\ e.previous_volume = 0
                        /\ e.velocity = Rat(10 * e.current_volume, 1)
                        /\ e.percent_growth = Rat(1000, 1)
        /\ \A k \in DOMAIN request.current_keywords :
              LET item == request.current_keywords[k]
              IN  (/\ HistoryOf(request.historical_data, item.keyword) = << >>
                   /\ item.volume < 2 * request.cfg.min_current_volume)
                  => item.keyword \notin ResultKeywords(response.value)

\* a result with a new entry and a kept keyword with history, or a keyword
\* without history left out between the floor and twice the floor
C12_Witness ==
    /\ TrendingReturned
    /\ \E i \in DOMAIN response.value : response.value[i].is_new
    /\ \E k \in DOMAIN request.current_keywords :
          LET item == request.current_keywords[k]
          IN  /\ HistoryOf(request.historical_data, item.keyword) = << >>
              /\ item.volume >= request.cfg.min_current_volume
              /\ item.volume < 2 * request.cfg.min_current_volume
              /\ item.keyword \notin ResultKeywords(response.value)

\* C13: the list is in descending order of velocity, entries of one velocity
\* in the order of current_keywords; get_top_trending_up returns the first
\* top_n entries of that list.
C13_SortedStableTopN ==
    /\ TrendingReturned =>
          SortedByVelocity(request.current_keywords, response.value)
    /\ (request.op = "get_top_trending_up" /\ response.raised = "none") =>
          LET full == FindTrendingUpKeywords(request.current_keywords,
                          request.historical_data, request.timeframe_days,
                          request.cfg).value
          IN  /\ SortedByVelocity(request.current_keywords, response.value)
              /\ Len(response.value) =
                    (IF request.top_n < Len(full) THEN request.top_n ELSE Len(full))
              /\ \A i \in DOMAIN response.value : response.value[i] = full[i]

\* two entries of one velocity, the second of current_keywords first in none
C13_Witness ==
    /\ TrendingReturned
    /\ Len(response.value) = 2
    /\ RatEq(response.value[1].velocity, response.value[2].velocity)
    /\ response.value[1].keyword = request.current_keywords[1].keyword

\* C14: previous_volume is the floored mean of the mentions of the points
\* dated in [now - 2*timeframe_days, now - timeframe_days], 0 if there is
\* none, whatever other dated points the history holds.
C14_PreviousVolumeIsWindowMean ==
    (/\ request.op = "_calculate_previous_volume"
     /\ \A i \in DOMAIN request.history : request.history[i].date.kind # "malformed")
    => LET inside == { i \in DOMAIN request.history :
                         /\ request.timeframe_days <= request.history[i].date.age
                         /\ request.history[i].date.age <= 2 * request.timeframe_days }
           pick == [i \in DOMAIN request.history |->
                      IF i \in inside THEN request.history[i].mentions ELSE 0]
       IN  /\ response.raised = "none"
           /\ response.value =
                 (IF inside = {} THEN 0 ELSE SumSeq(pick) \div Cardinality(inside))

\* the history without its points of malformed date
RECURSIVE WithoutMalformed(_)
WithoutMalformed(history) ==
    IF history = << >> THEN << >>
    ELSE (IF Head(history).date.kind = "malformed" THEN << >> ELSE <<Head(history)>>)
         \o WithoutMalformed(Tail(history))

\* C15: a history point of malformed date is skipped: the result is the one
\* the call gives without that point.
C15_MalformedDateSkipped ==
    request.op = "find_trending_up_keywords" =>
        response = FindTrendingUpKeywords(request.current_keywords,
                       [k \in DOMAIN request.historical_data |->
                          WithoutMalformed(request.historical_data[k])],
                       request.timeframe_days, request.cfg)

\* C16: detect_spike reports a spike only with a z_score of at least
\* spike_threshold; ten points of 50 and a volume of 500 give a spike with
\* z_score > 3, the same history and a volume of 55 give none.
C16_SpikeHasZScore ==
    request.op = "detect_spike" =>
        /\ response.value.is_spike =>
              ZGeq(response.value.z_score, request.spike_threshold)
        /\ request.historical_volumes = [i \in 1..10 |-> 50] =>
              /\ request.current_volume = 500 =>
                    (response.value.is_spike /\ ZGreater(response.value.z_score, Rat(3, 1)))
              /\ request.current_volume = 55 => ~response.value.is_spike

(***************************************************************************)
(* Notions the claims about the hot scorer share.                          *)
(***************************************************************************)
HasTimestamp(article) == article.published_at.kind # "missing"
Scorable(article) == article.published_at.kind = "aware"

\* C17: calculate_score returns a value >= 0 for every engagement, timestamp
\* and source weight; a future timestamp counts as 0 hours elapsed; a
\* timestamp that cannot be used gives 0.0 and no exception.
C17_ScoreNonNegative ==
    request.op = "calculate_score" =>
        /\ response.raised = "none"
        /\ RatLeq(ZeroScore, response.value)
        /\ request.published_at.kind # "aware" => response.value = ZeroScore
        /\ (request.published_at.kind = "aware" /\ request.published_at.hours < 0
            /\ request.engagement > 1 /\ request.source_weight > 0) =>
              RatEq(response.value,
                    Rat((request.engagement - 1) * request.source_weight,
                        10 * Pow(2, Gravity)))

\* an engagement of 0 with a positive weight: the negative score is clamped
C17_Witness ==
    /\ request.op = "calculate_score"
    /\ request.engagement = 0
    /\ request.source_weight > 0
    /\ request.published_at.kind = "aware"
    /\ response.value = ZeroScore

\* the engagement the original statement speaks of
ClaimedEngagement(article) ==
    IF article.score # 0 THEN article.score
    ELSE IF article.comments # 0 THEN article.comments
    ELSE 1

\* C18 as stated: every article with a publish timestamp and a positive
\* source weight has resolved engagement - 1 > 0 and a hot_score > 0.
C18_PositiveNumerator ==
    request.op = "score_articles" =>
        \A i \in DOMAIN response.value :
            LET entry == response.value[i]
            IN  (/\ HasTimestamp(entry.article)
                 /\ WeightOf(request.source_weights.weights, entry.article.source) > 0)
                => /\ ClaimedEngagement(entry.article) - 1 > 0
                   /\ RatLess(ZeroScore, entry.hot_score)

\* C18 as amended: the engagement is the score if non-zero, else the comment
\* count if non-zero, else 1; hot_score is never negative; for an article
\* with a usable timestamp and a positive source weight, hot_score is the
\* weighted, decayed (engagement - 1) when the engagement exceeds 1, hence
\* positive, and 0 when the engagement is 1 (the minimum value) or less.
C18_EngagementResolution ==
    request.op = "score_articles" =>
        \A i \in DOMAIN response.value :
            LET entry == response.value[i]
                weight == WeightOf(request.source_weights.weights, entry.article.source)
                hours == IF entry.article.published_at.hours < 0 THEN 0
                         ELSE entry.article.published_at.hours
                engagement == ClaimedEngagement(entry.article)
            IN  /\ RatLeq(ZeroScore, entry.hot_score)
                /\ (Scorable(entry.article) /\ weight > 0) =>
                      IF engagement > 1
                      THEN /\ RatEq(entry.hot_score,
                                    Rat((engagement - 1) * weight,
                                        10 * Pow(hours + 2, Gravity)))
                           /\ RatLess(ZeroScore, entry.hot_score)
                      ELSE RatEq(entry.hot_score, ZeroScore)

\* an article scored on its comment count, and one on the minimum value
C18_Witness ==
    /\ request.op = "score_articles"
    /\ \E i, j \in DOMAIN response.value :
          /\ Scorable(response.value[i].article)
          /\ response.value[i].article.score = 0
          /\ response.value[i].article.comments > 0
          /\ RatLess(ZeroScore, response.value[i].hot_score)
          /\ Scorable(response.value[j].article)
          /\ response.value[j].article.score = 0
          /\ response.value[j].article.comments = 0
          /\ RatEq(response.value[j].hot_score, ZeroScore)

\* C19: calculate_hot_scores scores an article with the weight of its source
\* in the source_weights argument, or in DEFAULT_SOURCE_WEIGHTS when the
\* argument is omitted.
C19_SourceWeightsApplied ==
    request.op = "calculate_hot_scores" =>
        \A i \in DOMAIN response.value :
            LET entry == response.value[i]
            IN  Scorable(entry.article) =>
                  RatEq(entry.hot_score,
                        CalculateScore(ClaimedEngagement(entry.article),
                            entry.article.published_at,
                            WeightOf(ResolvedSourceWeights(request.source_weights),
                                     entry.article.source)))

(***************************************************************************)
(* Notions the claim about the keyword extractor uses.                     *)
(***************************************************************************)
\* an article whose title or text is no string
Malformed(article) == article.title.type # "str" \/ article.text.type # "str"
EmptyArticle == [title |-> Str(<< >>), text |-> Str(<< >>)]
AsEmpty(batch) ==
    [i \in DOMAIN batch |-> IF Malformed(batch[i]) THEN EmptyArticle ELSE batch[i]]

\* C20: extract_from_article, extract_from_articles and get_top_keywords
\* return normally on a batch with an article whose title or text is no
\* string, and return what they return with that article's content empty.
C20_MalformedTreatedAsEmpty ==
    /\ request.op = "extract_from_article" =>
          /\ response.raised = "none"
          /\ response.value = ExtractFromArticle(
                 IF Malformed(request.article) THEN EmptyArticle ELSE request.article,
                 request.punkt_ready)
    /\ request.op = "extract_from_articles" =>
          /\ response.raised = "none"
          /\ response.value = ExtractFromArticles(AsEmpty(request.articles),
                                  request.min_frequency, request.punkt_ready)
    /\ request.op = "get_top_keywords" =>
          response = GetTopKeywords(AsEmpty(request.articles), request.top_n,
                                    request.min_frequency, request.punkt_ready)

(***************************************************************************)
(* Claims about the jobs of POST /api/fetch and the pipeline tasks.        *)
(***************************************************************************)
\* a job is in the map from the trigger on, running as long as its task is
\* in progress and terminal once the task is over
JobRecordedRunning ==
    \A r \in DOMAIN runs :
        runs[r].kind = "api" =>
            /\ r \in DOMAIN fetch_jobs
            /\ InProgress(r) => fetch_jobs[r].status = "running"
            /\ ~InProgress(r) => fetch_jobs[r].status \in {"completed", "failed"}

\* what a step may do to the records of the map
JobStep ==
    \A j \in DOMAIN fetch_jobs :
        /\ j \in DOMAIN fetch_jobs'
        /\ fetch_jobs'[j].started_at = fetch_jobs[j].started_at
        /\ fetch_jobs'[j].status \in {fetch_jobs[j].status, "completed", "failed"}
        /\ fetch_jobs[j].status # "running" => fetch_jobs'[j] = fetch_jobs[j]

\* C25: a job of POST /api/fetch is in the job map with status running
\* before its task takes a step; its status changes once, to completed or to
\* failed, and does so eventually whatever step raises; a terminal record
\* never changes, started_at is kept and no entry leaves the map.
C25_JobLifecycle ==
    /\ []JobRecordedRunning
    /\ [][JobStep]_vars
    /\ \A j \in 1..MaxRuns :
          (j \in DOMAIN fetch_jobs) ~>
              (j \in DOMAIN fetch_jobs /\ fetch_jobs[j].status \in {"completed", "failed"})

\* a job failed by the last database call of its task, on a later day than
\* it was started
C25_Witness ==
    \E j \in DOMAIN fetch_jobs :
        /\ fetch_jobs[j].status = "failed"
        /\ runs[j].raised = "OperationalError"
        /\ runs[j].trending # << >>
        /\ fetch_jobs[j].started_at < fetch_jobs[j].failed_at

\* C22: the record of a job whose task failed in a step after fetching
\* carries the results computed before the failure, tagged with the counts
\* of articles.
C22_DegradedRunCarriesCounts ==
    \A j \in DOMAIN fetch_jobs :
        (fetch_jobs[j].status = "failed" /\ runs[j].raised # "AttributeError") =>
            /\ "results" \in DOMAIN fetch_jobs[j]
            /\ fetch_jobs[j].results.articles_fetched = runs[j].original
            /\ fetch_jobs[j].results.articles_unique = runs[j].unique

\* C23: a job in whose task a source failed, and no database call raised,
\* ends completed.
C23_SourceFailureIsolated ==
    \A r \in DOMAIN runs :
        (/\ runs[r].kind = "api" /\ runs[r].pc = "done"
         /\ runs[r].failed # {} /\ runs[r].raised # "OperationalError") =>
            fetch_jobs[r].status = "completed"

\* a failure of the environment of a task: a source or a database call
EnvFailed(run) == run.failed # {} \/ run.raised = "OperationalError"

\* KeepDays: the retention window of the keyword history in days (keep_days;
\* 90 in the service, scaled down)
KeepDays == 1

\* C24: once a scheduled run is over, no row is left in the keyword history
\* that was older than the retention window when the run started.
C24_OldRowsPurged ==
    \A r \in DOMAIN runs :
        (runs[r].kind # "api" /\ runs[r].pc = "done") =>
            \A row \in keyword_history : row.day >= runs[r].started_at - KeepDays

\* C26: last_error is set only by a scheduled run in which a step failed: as
\* long as no source and no database call failed in a finished scheduled
\* run, last_error is None.
C26_LastErrorOnlyOnFailure ==
    (\A r \in DOMAIN runs :
        (runs[r].kind # "api" /\ runs[r].pc = "done") => ~EnvFailed(runs[r]))
    => scheduler_state.last_error = "none"

\* C29: GET /api/trending-up returns the topics of the run that completed
\* last, and no topic when that run found none.
C29_TrendingOfLatestRun ==
    last_completed # 0 =>
        GetTrendingUpTopics(trending_up_topics, "7day", 5) = runs[last_completed].trending

\* the day a job's task ended
JobEnded(record) ==
    IF record.status = "completed" THEN record.completed_at ELSE record.failed_at

\* C30: a keyword of a run with at least 2 * min_current_volume mentions and
\* no rows in the history but the run's own is reported by the run as a new
\* trend, when the history held rows of an earlier job.
C30_NewKeywordIsNewTrend ==
    \A r \in DOMAIN runs : \A i \in DOMAIN runs[r].keywords :
        LET k == runs[r].keywords[i].keyword
        IN  (/\ runs[r].pc = "done" /\ runs[r].call > 0 /\ ~EnvFailed(runs[r])
             /\ runs[r].keywords[i].mentions >= 10
             /\ \A row \in keyword_history : row.keyword = k => row.id.call = runs[r].call
             /\ \E q \in DOMAIN fetch_jobs, row \in keyword_history :
                   /\ q # r /\ fetch_jobs[q].status # "running"
                   /\ JobEnded(fetch_jobs[q]) < runs[r].started_at
                   /\ row.id.call = runs[q].call /\ row.keyword # k)
            => \E n \in DOMAIN runs[r].trending :
                   /\ runs[r].trending[n].keyword = k
                   /\ runs[r].trending[n].is_new
                   /\ runs[r].trending[n].previous_volume = 0

(***************************************************************************)
(* Claims about the scheduler.                                             *)
(***************************************************************************)
\* C27: while the scheduler is running and not paused, the interval_minutes
\* of the status is the interval the feed_refresh job fires at.
C27_ReportedIntervalIsActual ==
    (scheduler_state.running /\ ~scheduler_state.paused) =>
        (job.exists /\ scheduler_state.interval_minutes = job.interval)

\* the state stop_scheduler leaves
Stopped ==
    /\ ~scheduler_state.running /\ ~scheduler_state.paused
    /\ scheduler_state.next_run = "none"
    /\ ~job.exists /\ ~sched_running

\* C28: paused implies running in every state; stop_scheduler leaves the
\* scheduler not running, not paused, without next run and without job, and
\* a pause or resume in that state changes nothing.
C28_PausedImpliesRunning ==
    /\ [](scheduler_state.paused => scheduler_state.running)
    /\ [][StopScheduler => Stopped']_vars
    /\ [][(Stopped /\ (PauseScheduler \/ ResumeScheduler)) =>
             UNCHANGED <<scheduler_state, job, sched_running>>]_vars

\* the scheduler stopped after its job had fired
C28_Witness ==
    /\ Stopped
    /\ last_fire = "started"
    /\ \E r \in DOMAIN runs : runs[r].kind = "interval"

(***************************************************************************)
(* The reads of the HistoricalSnapshotService.  The bounds of the query    *)
(* are date objects, bound as date-only strings: a row stored with a       *)
(* timestamp on the day of end_date is above the upper bound.              *)
(***************************************************************************)
\* date >= start_date AND date <= end_date
InSnapshotWindow(row, now, days) ==
    /\ now - days <= row.day
    /\ IF row.stamp = "date" THEN row.day <= now ELSE row.day < now

\* the dict appended for a row
SnapshotEntry(row) ==
    [date |-> [day |-> row.day, stamp |-> row.stamp],
     mentions |-> row.mentions, sources |-> row.sources]

\* the body of the try of get_keyword_history
SnapshotKeywordHistory(rows, keyword, now, days) ==
    LET selected == { row \in rows : row.keyword = Lower(keyword)
                                     /\ InSnapshotWindow(row, now, days) }
        ordered == RowsByDate(selected)
    IN  [i \in 1..Len(ordered) |-> SnapshotEntry(ordered[i])]

\* the body of the try of get_all_keywords_history
SnapshotAllKeywordsHistory(rows, now, days) ==
    LET selected == { row \in rows : InSnapshotWindow(row, now, days) }
    IN  [k \in { row.keyword : row \in selected } |->
           SnapshotKeywordHistory(selected, k, now, days)]

\* get_keyword_history; err is what self.db.execute raised
GetKeywordHistoryCall(keyword, days, err) ==
    /\ request' = [op |-> "get_keyword_history", keyword |-> keyword, days |-> days,
                   store |-> err]
    /\ response' = [raised |-> "none",
                    value |-> IF err # "none" THEN << >>
                              ELSE SnapshotKeywordHistory(keyword_history, keyword, today, days)]
    /\ UNCHANGED <<dedupVars, pipeVars>>

\* get_all_keywords_history; err is what self.db.execute raised
GetAllKeywordsHistoryCall(days, err) ==
    /\ request' = [op |-> "get_all_keywords_history", days |-> days, store |-> err]
    /\ response' = [raised |-> "none",
                    value |-> IF err # "none" THEN << >>
                              ELSE SnapshotAllKeywordsHistory(keyword_history, today, days)]
    /\ UNCHANGED <<dedupVars, pipeVars>>

\* the keywords and the days the reads are made with
ReadKeywords == {"ai", "AI", "rust"}
HistoryDays == {0, 1}

NextSnapshots ==
    \/ \E kd \in KeywordResults : CreateSnapshot(kd)
    \/ \E sources \in {{"hackernews", "reddit"}} : TriggerFetch(sources)
    \/ \E r \in DOMAIN runs : FetchAndAnalyze(r, {}, Analysed(3, 2, <<"ai">>), "none")
    \/ \E r \in DOMAIN runs : StoreHistoryStep(r, {}, "none")
    \/ \E r \in DOMAIN runs : GetHistoryStep(r, "none")
    \/ NextDay(MaxDay)
    \/ \E keyword \in ReadKeywords, days \in HistoryDays, err \in StepErrors :
          GetKeywordHistoryCall(keyword, days, err)
    \/ \E days \in HistoryDays, err \in StepErrors : GetAllKeywordsHistoryCall(days, err)

InitSnapshots == InitPipelineState /\ InitDedupIdle /\ InitAnalyzersIdle

SpecSnapshots == InitSnapshots /\ [][NextSnapshots]_vars

\* a history read of the snapshot service made while the store failed
StoreFailedRead ==
    /\ request.op \in {"get_keyword_history", "get_all_keywords_history"}
    /\ request.store # "none"

\* C21: a history read of the snapshot service made while the store is
\* unreachable or the query fails ends in an explicit failure, never in an
\* ordinary empty result.
C21_StoreFailureSurfaced ==
    StoreFailedRead => response.raised # "none"

====
